---- MODULE Spec2Model ----
(***************************************************************************)
(* Bank-statement extraction and classification pipeline                   *)
(* (backend/excel_processor.py, class UAEBankExcelProcessor).              *)
(*                                                                         *)
(* Python strings are TLA+ strings: Len, SubSeq and \o are those of        *)
(* sequences, a character is a string of length 1.                         *)
(*                                                                         *)
(* The module holds one specification per component:                       *)
(*   SpecDate      detect_date_format                                      *)
(*   SpecClassify  categorize_transaction / _is_ibft_reference             *)
(*   SpecScan      process_excel_file: load, row loop, return              *)
(*   SpecRefiner   ai_categorize_transactions                              *)
(*   SpecMerchant  extract_merchant_name, called twice                     *)
(*   SpecHeaders   find_data_headers                                       *)
(*   SpecBank      bank_info: process_excel_file, then upload_file         *)
(* Each specification drives its own variables and leaves the others at    *)
(* their idle values.                                                      *)
(***************************************************************************)
EXTENDS Integers, Sequences, FiniteSets, TLC

VARIABLES
    \* ---- detect_date_format
    date_string,      \* the cell value handed to detect_date_format
    date_parts,       \* how that cell value was composed (history, read by the properties only)
    currency,         \* the currency hint
    today,            \* what datetime.now().strftime('%Y-%m-%d') yields
    date_result,      \* the value returned (or the exception raised)
    dpc               \* "ready" before the call, "done" after it

VARIABLES
    \* ---- ai_categorize_transactions
    api_key,                   \* whether openai.api_key is set
    transactions,              \* the records of the list passed in (mutated in place)
    before,                    \* the records as they were when the refiner was called (history)
    batch_start,               \* i of "for i in range(0, len(transactions), batch_size)"
    categorized_transactions,  \* the list being built: references (indices) into transactions
    outcomes,                  \* the classifier's outcome for each batch submitted (history)
    returned,                  \* the list returned: references into transactions
    rpc                        \* "call", "loop", "done"

VARIABLES
    \* ---- categorize_transaction
    clf_input,        \* the description handed to categorize_transaction
    desc_parts,       \* how that string was composed (history, read by the properties only)
    clf_result,       \* the label returned
    cpc               \* "ready" before the call, "done" after it

VARIABLES
    \* ---- process_excel_file
    bank_info,        \* bank_info as lines 657-678 leave it
    column_map,       \* the column mapping of the sheet being scanned (lines 689-696)
    row,              \* the number of data rows read so far
    all_transactions, \* the records appended so far
    last_row,         \* the cells of the row read last and what became of it (history)
    prev_row,         \* what became of the row read before that one (history)
    EXCEL_AVAILABLE,  \* whether the import of openpyxl succeeded (lines 11-15)
    file_result,      \* the pair process_excel_file returned
    refinement,       \* how ai_categorize_transactions was called for the file and the calls it made (history)
    spc               \* "call" on entry, "scan" while rows are read, "scanned" after the return

VARIABLES
    \* ---- extract_merchant_name
    raw_input,        \* the description handed to extract_merchant_name
    name_parts,       \* how that string was composed (history, read by the properties only)
    merchant_name1,   \* the name returned
    merchant_name2,   \* the name returned for that name
    mpc               \* "ready" before the call, "done" after it, "again" after the second

VARIABLES
    \* ---- find_data_headers
    worksheet,        \* the sheet handed to find_data_headers
    header_parts,     \* where the sheet's header row was put (history, read by the properties only)
    row_data,         \* the mapping returned
    hpc               \* "ready" before the call, "done" after it

VARIABLES
    \* ---- bank_info from process_excel_file to the response of upload_file
    workbook,         \* the 'Account Info' sheet of the file, if any, and the title cell of its first sheet
    file_bank_info,   \* bank_info as lines 657-678 leave it, then as upload_file updates it
    hint,             \* the currency handed to detect_date_format at line 721 (history)
    row_date,         \* the date detect_date_format read with it
    response,         \* the bank_info of the upload response
    bpc               \* "load", "scan", "scanned", "responded"

dateVars == <<date_string, date_parts, currency, today, date_result, dpc>>

refinerVars == <<api_key, transactions, before, batch_start, categorized_transactions,
                 outcomes, returned, rpc>>

classifyVars == <<clf_input, desc_parts, clf_result, cpc>>

scanVars == <<bank_info, column_map, row, all_transactions, last_row, prev_row, EXCEL_AVAILABLE,
              file_result, refinement, spc>>

merchantVars == <<raw_input, name_parts, merchant_name1, merchant_name2, mpc>>

headerVars == <<worksheet, header_parts, row_data, hpc>>

bankVars == <<workbook, file_bank_info, hint, row_date, response, bpc>>

vars == <<dateVars, refinerVars, classifyVars, scanVars, merchantVars, headerVars, bankVars>>

(***************************************************************************)
(* Cell values are tagged: None, [t |-> "str", s |-> ...],                 *)
(* [t |-> "int", v |-> ...], [t |-> "datetime", y, m, d].  Idle is the     *)
(* value of a variable that no call has written.                           *)
(***************************************************************************)
None == [t |-> "none"]
Idle == [t |-> "idle"]

\* A call's outcome: the value it returns, or the exception it raises.
IdleDate ==
    /\ date_string = Idle /\ date_parts = Idle /\ currency = Idle /\ today = Idle
    /\ date_result = Idle /\ dpc = "idle"

IdleRefiner ==
    /\ api_key = Idle /\ transactions = Idle /\ before = Idle /\ batch_start = Idle
    /\ categorized_transactions = Idle /\ outcomes = Idle /\ returned = Idle /\ rpc = "idle"

IdleClassify ==
    /\ clf_input = Idle /\ desc_parts = Idle /\ clf_result = Idle /\ cpc = "idle"

IdleScan ==
    /\ bank_info = Idle /\ column_map = Idle /\ row = Idle /\ all_transactions = Idle
    /\ last_row = Idle /\ prev_row = Idle /\ EXCEL_AVAILABLE = Idle /\ file_result = Idle
    /\ refinement = Idle /\ spc = "idle"

IdleMerchant ==
    /\ raw_input = Idle /\ name_parts = Idle /\ merchant_name1 = Idle
    /\ merchant_name2 = Idle /\ mpc = "idle"

IdleHeaders ==
    /\ worksheet = Idle /\ header_parts = Idle /\ row_data = Idle /\ hpc = "idle"

IdleBank ==
    /\ workbook = Idle /\ file_bank_info = Idle /\ hint = Idle /\ row_date = Idle
    /\ response = Idle /\ bpc = "idle"

Return(v) == [kind |-> "return", value |-> v]
Raise(e) == [kind |-> "raise", value |-> e]
ReturnNone == [kind |-> "none", value |-> ""]

\* ------------------------------------------------------------------------
\* String primitives (str methods and the character classes of re)
\* ------------------------------------------------------------------------

Digit == {"0", "1", "2", "3", "4", "5", "6", "7", "8", "9"}

Whitespace == {" ", "\t", "\n"}

CharAt(s, i) == SubSeq(s, i, i)

IsDigits(s) == \A i \in 1..Len(s) : CharAt(s, i) \in Digit

RECURSIVE LStrip(_)
LStrip(s) ==
    IF Len(s) > 0 /\ CharAt(s, 1) \in Whitespace THEN LStrip(SubSeq(s, 2, Len(s))) ELSE s

RECURSIVE RStrip(_)
RStrip(s) ==
    IF Len(s) > 0 /\ CharAt(s, Len(s)) \in Whitespace
    THEN RStrip(SubSeq(s, 1, Len(s) - 1))
    ELSE s

Strip(s) == RStrip(LStrip(s))

DigitValue(c) ==
    CASE c = "0" -> 0 [] c = "1" -> 1 [] c = "2" -> 2 [] c = "3" -> 3 [] c = "4" -> 4
      [] c = "5" -> 5 [] c = "6" -> 6 [] c = "7" -> 7 [] c = "8" -> 8 [] c = "9" -> 9

\* int(s) for a string of decimal digits
RECURSIVE StrToInt(_)
StrToInt(s) ==
    IF Len(s) = 0 THEN 0
    ELSE 10 * StrToInt(SubSeq(s, 1, Len(s) - 1)) + DigitValue(CharAt(s, Len(s)))

DigitChar(d) == CharAt("0123456789", d + 1)

\* str(n) for a natural number
RECURSIVE NatToStr(_)
NatToStr(n) == IF n < 10 THEN DigitChar(n) ELSE NatToStr(n \div 10) \o DigitChar(n % 10)

\* s.zfill(width)
RECURSIVE ZFill(_, _)
ZFill(s, width) == IF Len(s) >= width THEN s ELSE ZFill("0" \o s, width)

\* ------------------------------------------------------------------------
\* Date Resolver: detect_date_format
\* ------------------------------------------------------------------------

StrCell(s) == [t |-> "str", s |-> s]
IntCell(v) == [t |-> "int", v |-> v]
DateTimeCell(y, m, d) == [t |-> "datetime", y |-> y, m |-> m, d |-> d]
\* a float cell, its value counted in hundredths
FloatCell(c) == [t |-> "float", c |-> c]

\* The decimals of repr(x) for a float of c hundredths: "0", "5", "05", "25"
FloatDecimals(c) ==
    IF c % 10 = 0 THEN NatToStr(c \div 10) ELSE NatToStr(c \div 10) \o NatToStr(c % 10)

FloatRepr(c) == NatToStr(c \div 100) \o "." \o FloatDecimals(c % 100)

\* str(value) of a cell value
PyStr(cell) ==
    CASE cell.t = "str" -> cell.s
      [] cell.t = "none" -> "None"
      [] cell.t = "int" -> IF cell.v < 0 THEN "-" \o NatToStr(-cell.v) ELSE NatToStr(cell.v)
      [] cell.t = "float" -> IF cell.c < 0 THEN "-" \o FloatRepr(-cell.c) ELSE FloatRepr(cell.c)
      [] cell.t = "datetime" ->
            NatToStr(cell.y) \o "-" \o ZFill(NatToStr(cell.m), 2) \o "-"
                \o ZFill(NatToStr(cell.d), 2) \o " 00:00:00"

\* date_string.strftime('%Y-%m-%d'), for the years 1000..9999 a worksheet date can hold
StrFTime(cell) ==
    NatToStr(cell.y) \o "-" \o ZFill(NatToStr(cell.m), 2) \o "-" \o ZFill(NatToStr(cell.d), 2)

\* int(s): ValueError unless s is a non-empty run of digits
PyInt(s) == IF Len(s) > 0 /\ IsDigits(s) THEN Return(StrToInt(s)) ELSE Raise("ValueError")

\* re.match(r'^(\d{l1})<sep>(\d{l2})<sep>(\d{l3})$', s): the three groups, or None.
\* The separators are not digits, so at most one split matches.
MatchThree(s, sep, lens1, lens2, lens3) ==
    LET splits == { t \in lens1 \X lens2 \X lens3 :
                      /\ Len(s) = t[1] + t[2] + t[3] + 2
                      /\ IsDigits(SubSeq(s, 1, t[1]))
                      /\ CharAt(s, t[1] + 1) = sep
                      /\ IsDigits(SubSeq(s, t[1] + 2, t[1] + t[2] + 1))
                      /\ CharAt(s, t[1] + t[2] + 2) = sep
                      /\ IsDigits(SubSeq(s, t[1] + t[2] + 3, Len(s))) }
    IN  IF splits = {} THEN None
        ELSE LET t == CHOOSE t \in splits : TRUE
             IN  [t |-> "match",
                  g1 |-> SubSeq(s, 1, t[1]),
                  g2 |-> SubSeq(s, t[1] + 2, t[1] + t[2] + 1),
                  g3 |-> SubSeq(s, t[1] + t[2] + 3, Len(s))]

\* f"{y}-{m.zfill(2)}-{d.zfill(2)}"
IsoDate(y, m, d) == y \o "-" \o ZFill(m, 2) \o "-" \o ZFill(d, 2)

\* lines 614-619: MM/DD/YY with a 2-digit year
TwoDigitYear(m) ==
    LET year == PyInt(m.g3)
    IN  IF year.kind = "raise" THEN year
        ELSE Return(IsoDate((IF year.value < 50 THEN "20" ELSE "19") \o m.g3, m.g1, m.g2))

\* lines 621-624: YYYY-MM-DD
IsoFormat(m) == Return(IsoDate(m.g1, m.g2, m.g3))

\* FourDigitYear with the currency hint consulted before the components' bounds.
FourDigitYear_HintFirst(m, cur) ==
    IF cur = "USD" THEN Return(IsoDate(m.g3, m.g1, m.g2))
    ELSE IF StrToInt(m.g2) > 12 THEN Return(IsoDate(m.g3, m.g1, m.g2))
    ELSE Return(IsoDate(m.g3, m.g2, m.g1))

\* FourDigitYear with day-first kept for AED alone.
FourDigitYear_AedOnly(m, cur) ==
    IF StrToInt(m.g1) > 12 THEN Return(IsoDate(m.g3, m.g2, m.g1))
    ELSE IF StrToInt(m.g2) > 12 THEN Return(IsoDate(m.g3, m.g1, m.g2))
    ELSE IF cur = "AED" THEN Return(IsoDate(m.g3, m.g2, m.g1))
    ELSE Return(IsoDate(m.g3, m.g1, m.g2))

\* lines 626-642: A/B/YYYY, the components' bounds first, the currency hint last
FourDigitYear(m, cur) ==
    LET first == PyInt(m.g1)
        second == PyInt(m.g2)
    IN  IF first.kind = "raise" THEN first
        ELSE IF second.kind = "raise" THEN second
        ELSE IF first.value > 12 THEN Return(IsoDate(m.g3, m.g2, m.g1))
        ELSE IF second.value > 12 THEN Return(IsoDate(m.g3, m.g1, m.g2))
        ELSE IF cur = "USD" THEN Return(IsoDate(m.g3, m.g1, m.g2))
        ELSE Return(IsoDate(m.g3, m.g2, m.g1))

\* A fallback that gives up instead of substituting the current date.
DateFallback_None(now) == ReturnNone

\* lines 644-645: the fallback, datetime.now().strftime('%Y-%m-%d')
DateFallback(now) == Return(now)

detect_date_format(cell, cur, now) ==
    IF cell.t = "datetime" THEN Return(StrFTime(cell))
    ELSE
        LET date_str == Strip(PyStr(cell))
            m1 == MatchThree(date_str, "/", {1, 2}, {1, 2}, {2})
            m2 == MatchThree(date_str, "-", {4}, {1, 2}, {1, 2})
            m3 == MatchThree(date_str, "/", {1, 2}, {1, 2}, {4})
        IN  IF m1 # None THEN TwoDigitYear(m1)
            ELSE IF m2 # None THEN IsoFormat(m2)
            ELSE IF m3 # None THEN FourDigitYear(m3, cur)
            ELSE DateFallback(now)

\* ---- the inputs of SpecDate

\* Longest run of digits tried as a day or month component (the patterns take 1 or 2).
MaxCompLen == 3

DateDigits == {"0", "1", "2", "3"}

RECURSIVE StringsOfLen(_, _)
StringsOfLen(A, n) ==
    IF n = 0 THEN {""} ELSE { s \o c : s \in StringsOfLen(A, n - 1), c \in A }

RECURSIVE Repeat(_, _)
Repeat(c, n) == IF n = 0 THEN "" ELSE c \o Repeat(c, n - 1)

\* Every 1- and 2-digit component over DateDigits, and one over-long run per length above 2.
Components ==
    StringsOfLen(DateDigits, 1) \cup StringsOfLen(DateDigits, 2)
        \cup { Repeat("1", n) : n \in 3..MaxCompLen }

Years == {"24", "50", "202", "2024"}

Currencies == {"USD", "AED", "EUR"}

NoParts(layout) == [layout |-> layout, a |-> "", b |-> "", y |-> ""]

\* Each input is <<cell value, how it was composed>>.
DateInputs ==
    { <<StrCell(a \o "/" \o b \o "/" \o y), [layout |-> "slash", a |-> a, b |-> b, y |-> y]>> :
        a \in Components, b \in Components, y \in Years }
    \cup
    { <<StrCell(y \o "-" \o a \o "-" \o b), [layout |-> "dash", a |-> a, b |-> b, y |-> y]>> :
        a \in Components, b \in Components, y \in {"2024", "24"} }
    \cup
    { <<StrCell("  " \o a \o "/" \o a \o "/2024 "), [layout |-> "slash", a |-> a, b |-> a, y |-> "2024"]>> :
        a \in Components }
    \cup
    { <<None, NoParts("none")>>,
      <<IntCell(45000), NoParts("other")>>,
      <<StrCell(""), NoParts("other")>>,
      <<StrCell("5 Jan 2024"), NoParts("other")>>,
      <<StrCell("13.04.2024"), NoParts("other")>>,
      <<StrCell("2024/04/13"), NoParts("other")>>,
      <<DateTimeCell(2024, 3, 4), NoParts("datetime")>>,
      <<DateTimeCell(1999, 12, 31), NoParts("datetime")>> }

InitDate ==
    /\ \E inp \in DateInputs : date_string = inp[1] /\ date_parts = inp[2]
    /\ currency \in Currencies
    /\ today = "2026-11-01"
    /\ date_result = Idle
    /\ dpc = "ready"
    /\ IdleRefiner
    /\ IdleClassify
    /\ IdleScan
    /\ IdleMerchant
    /\ IdleHeaders
    /\ IdleBank

\* One call of detect_date_format(date_string, currency).
DetectDateFormat ==
    /\ dpc = "ready"
    /\ date_result' = detect_date_format(date_string, currency, today)
    /\ dpc' = "done"
    /\ UNCHANGED <<date_string, date_parts, currency, today>>
    /\ UNCHANGED <<refinerVars, classifyVars, scanVars, merchantVars, headerVars, bankVars>>

NextDate == DetectDateFormat

SpecDate == InitDate /\ [][NextDate]_vars

\* ---- properties of the Date Resolver

\* The input is A/B/YYYY: 1-2 digit components and a 4-digit year.
IsSlash4(parts) ==
    /\ parts.layout = "slash"
    /\ Len(parts.y) = 4
    /\ Len(parts.a) \in {1, 2}
    /\ Len(parts.b) \in {1, 2}

\* out reads YYYY-MM-DD with the given year, month number and day number.
ReadsAs(out, year, month, day) ==
    /\ Len(out) = 10
    /\ SubSeq(out, 1, 4) = year
    /\ CharAt(out, 5) = "-"
    /\ CharAt(out, 8) = "-"
    /\ IsDigits(SubSeq(out, 6, 7)) /\ StrToInt(SubSeq(out, 6, 7)) = month
    /\ IsDigits(SubSeq(out, 9, 10)) /\ StrToInt(SubSeq(out, 9, 10)) = day

\* C6: for A/B/YYYY with exactly one of A, B above 12, the component above 12 is
\* the day and the other the month, and the result is the same for every currency;
\* whenever a component is above 12 the currency does not change the result.
C6_UnambiguousDayWins ==
    (dpc = "done" /\ IsSlash4(date_parts)) =>
        LET a == StrToInt(date_parts.a)
            b == StrToInt(date_parts.b)
        IN  /\ (a > 12 /\ b <= 12) =>
                /\ date_result.kind = "return"
                /\ ReadsAs(date_result.value, date_parts.y, b, a)
            /\ (b > 12 /\ a <= 12) =>
                /\ date_result.kind = "return"
                /\ ReadsAs(date_result.value, date_parts.y, a, b)
            /\ (a > 12 \/ b > 12) =>
                \A c \in Currencies : detect_date_format(date_string, c, today) = date_result

C6_Witness ==
    /\ dpc = "done"
    /\ date_string = StrCell("13/03/2024")
    /\ currency = "USD"
    /\ date_result = Return("2024-03-13")

\* C7: for A/B/YYYY with A and B both in 1..12, USD gives YYYY-A-B (month first)
\* and every other currency gives YYYY-B-A (day first), zero-padded.
C7_AmbiguousUsesCurrency ==
    (dpc = "done" /\ IsSlash4(date_parts)) =>
        LET a == StrToInt(date_parts.a)
            b == StrToInt(date_parts.b)
        IN  (a \in 1..12 /\ b \in 1..12) =>
                /\ date_result.kind = "return"
                /\ IF currency = "USD"
                   THEN ReadsAs(date_result.value, date_parts.y, a, b)
                   ELSE ReadsAs(date_result.value, date_parts.y, b, a)

C7_Witness ==
    /\ dpc = "done"
    /\ date_string = StrCell("03/02/2024")
    /\ \/ currency = "USD" /\ date_result = Return("2024-03-02")
       \/ currency = "AED" /\ date_result = Return("2024-02-03")

\* The cell matches one of the formats detect_date_format recognizes.
Recognized(parts) ==
    \/ parts.layout = "datetime"
    \/ /\ parts.layout = "slash"
       /\ Len(parts.a) \in {1, 2} /\ Len(parts.b) \in {1, 2} /\ Len(parts.y) \in {2, 4}
    \/ /\ parts.layout = "dash"
       /\ Len(parts.a) \in {1, 2} /\ Len(parts.b) \in {1, 2} /\ Len(parts.y) = 4

\* C8: for every cell value and currency detect_date_format returns a non-null,
\* non-empty string and raises nothing; a value matching no recognized format
\* yields the current date.
C8_AlwaysADate ==
    dpc = "done" =>
        /\ date_result.kind = "return"
        /\ Len(date_result.value) > 0
        /\ ~Recognized(date_parts) => date_result.value = today

C8_Witness ==
    /\ dpc = "done"
    /\ date_string = None
    /\ date_result = Return(today)

\* ------------------------------------------------------------------------
\* Batch Refiner: ai_categorize_transactions
\* ------------------------------------------------------------------------

\* lines 347-363: the closed taxonomy
Categories ==
    { "Internal Transfer", "Salary & Income", "Food & Beverage",
      "Transportation & Logistics", "Retail & Shopping", "Healthcare", "Utilities",
      "Entertainment & Media", "Technology", "Finance & Banking", "Travel & Tourism",
      "Professional Services", "Real Estate", "Education", "Other" }

\* Records per batch (batch_size is 50 in the source; the model runs it scaled down).
BatchSize == 2

\* Longest list handed to the refiner.
MaxTx == 5

Min(a, b) == IF a < b THEN a ELSE b

\* The record the row scan appends (lines 768-776), the k-th of the file.
TxRecord(k, cat) ==
    [ Date |-> "2025-01-1" \o NatToStr(k),
      Amount |-> -100 * k,
      Description |-> "POS PURCHASE " \o NatToStr(k),
      MerchantName |-> "Merchant " \o NatToStr(k),
      Type |-> "Withdrawal",
      Category |-> cat,
      Subcategory |-> cat ]

\* Rule-based categories the records arrive with.
SeedLabels == {"Other", "Food & Beverage"}

\* Labels the external classifier answers with: one of the taxonomy, one outside it.
ResponseLabels == {"Education", "Groceries"}

\* What one call of the external classifier comes to, for a batch of n records:
\*   throw    openai.chat.completions.create raises (transport, timeout, no content)
\*   badjson  json.loads raises
\*   list     json.loads gives a list of 0..n+1 labels
\*   string   json.loads gives a string
\*   object   json.loads gives a dict
\*   scalar   json.loads gives a number, a boolean or null
Responses(n) ==
    { [kind |-> "throw", cats |-> <<>>, text |-> ""],
      [kind |-> "badjson", cats |-> <<>>, text |-> ""],
      [kind |-> "object", cats |-> <<>>, text |-> ""],
      [kind |-> "scalar", cats |-> <<>>, text |-> ""],
      [kind |-> "string", cats |-> <<>>, text |-> ""],
      [kind |-> "string", cats |-> <<>>, text |-> "Other"] }
    \cup
    { [kind |-> "list", cats |-> c, text |-> ""] :
        c \in UNION { [1..k -> ResponseLabels] : k \in 0..(n + 1) } }

\* A padding that fills the missing tail with the default label.
RECURSIVE PadCategories_Other(_, _)
PadCategories_Other(ai_categories, batch) ==
    IF Len(ai_categories) < Len(batch)
    THEN PadCategories_Other(Append(ai_categories, "Other"), batch)
    ELSE ai_categories

\* lines 506-508: pad a short answer with each record's own category
RECURSIVE PadCategories(_, _)
PadCategories(ai_categories, batch) ==
    IF Len(ai_categories) < Len(batch)
    THEN PadCategories(Append(ai_categories, batch[Len(ai_categories) + 1].Category), batch)
    ELSE ai_categories

\* An application of the labels that leaves the subcategory as the row scan set it.
ApplyCategories_CategoryOnly(txs, i, n, labels) ==
    [ k \in 1..Len(txs) |->
        IF k \in (i + 1)..(i + n) /\ k - i <= Len(labels)
        THEN [txs[k] EXCEPT !.Category = labels[k - i]]
        ELSE txs[k] ]

\* lines 511-515: write the labels into the records i+1..i+n of txs
\* (labels is a list, or a string read character by character)
ApplyCategories(txs, i, n, labels) ==
    [ k \in 1..Len(txs) |->
        IF k \in (i + 1)..(i + n) /\ k - i <= Len(labels)
        THEN [txs[k] EXCEPT !.Category = labels[k - i], !.Subcategory = labels[k - i]]
        ELSE txs[k] ]

\* A fallback that resets the failed batch to the default label.
KeepBatch_Reset(txs, i, n) ==
    [ k \in 1..Len(txs) |->
        IF k \in (i + 1)..(i + n)
        THEN [txs[k] EXCEPT !.Category = "", !.Subcategory = ""]
        ELSE txs[k] ]

\* lines 518-522: the except branch leaves the records as they are
KeepBatch(txs, i, n) == txs

\* An append that puts the batch in front of the list built so far.
AppendBatch_Front(refs, i, n) == [ j \in 1..n |-> i + j ] \o refs

\* lines 516 and 521-522: each record of the batch is appended once, in order
AppendBatch(refs, i, n) == refs \o [ j \in 1..n |-> i + j ]

\* The characters of a string, as the list indexing s[idx] reads them.
CharList(s) == [ j \in 1..Len(s) |-> CharAt(s, j) ]

\* lines 482-522: whether the try block of one batch runs to its end.
\* A dict fails at .append or at ai_categories[0], a scalar at len(), a string
\* shorter than the batch at .append.
BatchSucceeds(resp, n) ==
    \/ resp.kind = "list"
    \/ resp.kind = "string" /\ Len(resp.text) >= n

\* A batch step that takes a list shorter than the batch for a failed answer.
RefineBatchRecords_KeepShort(txs, i, n, resp) ==
    IF ~BatchSucceeds(resp, n) \/ (resp.kind = "list" /\ Len(resp.cats) < n)
    THEN KeepBatch(txs, i, n)
    ELSE IF resp.kind = "list"
    THEN ApplyCategories(txs, i, n, PadCategories(resp.cats, SubSeq(txs, i + 1, i + n)))
    ELSE ApplyCategories(txs, i, n, CharList(resp.text))

\* lines 482-522: the records after one batch
RefineBatchRecords(txs, i, n, resp) ==
    IF ~BatchSucceeds(resp, n) THEN KeepBatch(txs, i, n)
    ELSE IF resp.kind = "list"
    THEN ApplyCategories(txs, i, n, PadCategories(resp.cats, SubSeq(txs, i + 1, i + n)))
    ELSE ApplyCategories(txs, i, n, CharList(resp.text))

InitRefiner ==
    /\ api_key \in BOOLEAN
    /\ \E n \in 0..MaxTx : \E cats \in [1..n -> SeedLabels] :
           transactions = [ k \in 1..n |-> TxRecord(k, cats[k]) ]
    /\ before = transactions
    /\ batch_start = 0
    /\ categorized_transactions = <<>>
    /\ outcomes = <<>>
    /\ returned = Idle
    /\ rpc = "call"
    /\ IdleDate
    /\ IdleClassify
    /\ IdleScan
    /\ IdleMerchant
    /\ IdleHeaders
    /\ IdleBank

\* lines 343-344: no API key or nothing to categorize: the list is returned as is
ReturnUnrefined ==
    /\ rpc = "call"
    /\ ~api_key \/ Len(transactions) = 0
    /\ returned' = [ k \in 1..Len(transactions) |-> k ]
    /\ rpc' = "done"
    /\ UNCHANGED <<api_key, transactions, before, batch_start, categorized_transactions, outcomes>>
    /\ UNCHANGED <<dateVars, classifyVars, scanVars, merchantVars, headerVars, bankVars>>

\* lines 365-370: enter the batch loop
EnterLoop ==
    /\ rpc = "call"
    /\ api_key /\ Len(transactions) > 0
    /\ batch_start' = 0
    /\ categorized_transactions' = <<>>
    /\ rpc' = "loop"
    /\ UNCHANGED <<api_key, transactions, before, outcomes, returned>>
    /\ UNCHANGED <<dateVars, classifyVars, scanVars, merchantVars, headerVars, bankVars>>

\* lines 370-522: one iteration of the loop: one batch submitted, its answer applied
RefineBatch ==
    /\ rpc = "loop"
    /\ batch_start < Len(transactions)
    /\ LET n == Min(BatchSize, Len(transactions) - batch_start)
       IN  \E resp \in Responses(n) :
             /\ transactions' = RefineBatchRecords(transactions, batch_start, n, resp)
             /\ categorized_transactions' = AppendBatch(categorized_transactions, batch_start, n)
             /\ outcomes' = Append(outcomes, resp)
    /\ batch_start' = batch_start + BatchSize
    /\ UNCHANGED <<api_key, before, returned, rpc>>
    /\ UNCHANGED <<dateVars, classifyVars, scanVars, merchantVars, headerVars, bankVars>>

\* line 524: the loop is over, the list built is returned
ReturnCategorized ==
    /\ rpc = "loop"
    /\ batch_start >= Len(transactions)
    /\ returned' = categorized_transactions
    /\ rpc' = "done"
    /\ UNCHANGED <<api_key, transactions, before, batch_start, categorized_transactions, outcomes>>
    /\ UNCHANGED <<dateVars, classifyVars, scanVars, merchantVars, headerVars, bankVars>>

NextRefiner == ReturnUnrefined \/ EnterLoop \/ RefineBatch \/ ReturnCategorized

SpecRefiner == InitRefiner /\ [][NextRefiner]_vars

\* ---- properties of the Batch Refiner

\* The records of the b-th batch submitted: BatchFirst(b)+1 .. BatchFirst(b)+BatchLen(b)
BatchFirst(b) == (b - 1) * BatchSize
BatchLen(b) == Min(BatchSize, Len(before) - BatchFirst(b))
BatchRange(b) == (BatchFirst(b) + 1)..(BatchFirst(b) + BatchLen(b))

\* C1: for every batch whose classifier call throws or whose answer fails to parse
\* as JSON, every record of the batch has the category and subcategory it had
\* before the refiner was called, and none has an empty category.
C1_FailedBatchKeepsCategories ==
    rpc \in {"loop", "done"} =>
        \A b \in 1..Len(outcomes) :
            outcomes[b].kind \in {"throw", "badjson"} =>
                \A k \in BatchRange(b) :
                    /\ transactions[k].Category = before[k].Category
                    /\ transactions[k].Subcategory = before[k].Subcategory
                    /\ transactions[k].Category # ""

C1_Witness ==
    /\ rpc = "done"
    /\ Len(outcomes) >= 2
    /\ outcomes[1].kind = "list" /\ transactions[1].Category # before[1].Category
    /\ outcomes[2].kind = "throw"

\* C2: every record of the final output has a category of the closed taxonomy,
\* whatever the external classifier answered.
C2_FinalCategoryInTaxonomy ==
    rpc = "done" =>
        \A j \in 1..Len(returned) : transactions[returned[j]].Category \in Categories

\* C3: the list returned holds exactly the input records, each once, in the input
\* order, and only Category and Subcategory of a record may have changed.
C3_SameRecordsSameOrder ==
    /\ rpc \in {"call", "loop", "done"} =>
        /\ Len(transactions) = Len(before)
        /\ \A k \in 1..Len(before) :
            /\ transactions[k].Date = before[k].Date
            /\ transactions[k].Amount = before[k].Amount
            /\ transactions[k].Description = before[k].Description
            /\ transactions[k].MerchantName = before[k].MerchantName
            /\ transactions[k].Type = before[k].Type
    /\ rpc = "done" => returned = [ k \in 1..Len(before) |-> k ]

C3_Witness ==
    /\ rpc = "done"
    /\ Len(outcomes) = 3
    /\ outcomes[1].kind = "list" /\ Len(outcomes[1].cats) > BatchLen(1)
    /\ outcomes[2].kind = "badjson"
    /\ outcomes[3].kind = "list" /\ Len(outcomes[3].cats) < BatchLen(3)
    /\ transactions[1].Category # before[1].Category

\* C4: when the classifier answers with a list of k labels for a batch of n > k
\* records, the first k records get the labels in order and each of the other
\* n - k records keeps its own category; none of these is without a category.
C4_ShortAnswerPadded ==
    rpc \in {"loop", "done"} =>
        \A b \in 1..Len(outcomes) :
            (outcomes[b].kind = "list" /\ Len(outcomes[b].cats) < BatchLen(b)) =>
                \A k \in BatchRange(b) :
                    LET j == k - BatchFirst(b)
                    IN  IF j <= Len(outcomes[b].cats)
                        THEN /\ transactions[k].Category = outcomes[b].cats[j]
                             /\ transactions[k].Subcategory = outcomes[b].cats[j]
                        ELSE /\ transactions[k].Category = before[k].Category
                             /\ transactions[k].Subcategory = before[k].Category
                             /\ transactions[k].Category # ""

C4_Witness ==
    /\ rpc = "done"
    /\ Len(outcomes) >= 1
    /\ outcomes[1].kind = "list" /\ Len(outcomes[1].cats) = 1 /\ BatchLen(1) = 2
    /\ transactions[1].Category = "Education" /\ before[1].Category = "Other"
    /\ transactions[2].Category = "Food & Beverage" /\ before[2].Category = "Food & Beverage"

\* ------------------------------------------------------------------------
\* Rule Classifier: categorize_transaction, _is_ibft_reference
\* ------------------------------------------------------------------------

UpperLetters == "ABCDEFGHIJKLMNOPQRSTUVWXYZ"
LowerLetters == "abcdefghijklmnopqrstuvwxyz"

UpperSet == { CharAt(UpperLetters, i) : i \in 1..26 }
LowerSet == { CharAt(LowerLetters, i) : i \in 1..26 }
LowerOf == [c \in UpperSet |-> CharAt(LowerLetters, CHOOSE i \in 1..26 : CharAt(UpperLetters, i) = c)]
UpperOf == [c \in LowerSet |-> CharAt(UpperLetters, CHOOSE i \in 1..26 : CharAt(LowerLetters, i) = c)]

\* c.lower() for one (ASCII) character
LowerChar(c) == IF c \in UpperSet THEN LowerOf[c] ELSE c

\* s.lower()
RECURSIVE Lower(_)
Lower(s) ==
    IF Len(s) = 0 THEN ""
    ELSE IF Len(s) = 1 THEN LowerChar(s)
    ELSE Lower(SubSeq(s, 1, Len(s) \div 2)) \o Lower(SubSeq(s, Len(s) \div 2 + 1, Len(s)))

\* kw in s
Contains(s, kw) ==
    \E i \in 1..(Len(s) - Len(kw) + 1) : SubSeq(s, i, i + Len(kw) - 1) = kw

\* s.startswith(p)
StartsWith(s, p) == Len(s) >= Len(p) /\ SubSeq(s, 1, Len(p)) = p

\* any(kw in s for kw in kws)
AnyIn(kws, s) == \E kw \in kws : Contains(s, kw)

\* re character classes (ASCII; the pattern's en dash is the one character left out)
HexChars == Digit \cup {"a", "b", "c", "d", "e", "f", "A", "B", "C", "D", "E", "F"}
Letters == UpperSet \cup LowerSet
WordChars == Digit \cup Letters \cup {"_"}
IsHexChar(c) == c \in HexChars
IsLetter(c) == c \in Letters
IsWordChar(c) == c \in WordChars
IsDash(c) == c = "-"

AllChars(s, from, to, P(_)) == \A i \in from..to : P(CharAt(s, i))
IsWs(c) == c \in Whitespace

\* t is matched whole by  \s*[-]\s*\w{0,5}\s*
IsRefSuffix(t) ==
    \E a \in 0..Len(t) : \E b \in a..Len(t) : \E c \in b..Len(t) :
        /\ a + 1 <= Len(t)
        /\ AllChars(t, 1, a, IsWs)
        /\ IsDash(CharAt(t, a + 1))
        /\ b >= a + 1
        /\ AllChars(t, a + 2, b, IsWs)
        /\ c - b <= 5
        /\ AllChars(t, b + 1, c, IsWordChar)
        /\ AllChars(t, c + 1, Len(t), IsWs)

\* re.sub(r'\s*[-]\s*\w{0,5}\s*$', '', s): the leftmost match reaches the end of s
\* and is cut off; no second match can follow it.
StripRefSuffix(s) ==
    LET starts == { i \in 1..Len(s) : IsRefSuffix(SubSeq(s, i, Len(s))) }
    IN  IF starts = {} THEN s
        ELSE SubSeq(s, 1, (CHOOSE i \in starts : \A j \in starts : i <= j) - 1)

\* lines 166-173: _is_ibft_reference
is_ibft_reference(description) ==
    LET clean == StripRefSuffix(Strip(description))
    IN  Len(clean) >= 8 /\ AllChars(clean, 1, Len(clean), IsHexChar)

\* lines 44-142: self.categories
CategoryKeywords(category) ==
    IF category = "Internal Transfer" THEN
        {
          "mobn transfer", "mobn", "internal transfer", "own account transfer",
          "self transfer", "ibft", "neft", "rtgs", "imps", "upi transfer",
          "between accounts", "acc transfer", "account transfer", "transfer from",
          "transfer to", "online transfer", "mobile transfer",
          "internet banking transfer", "e-transfer", "wire to self",
          "salary transfer own", "al ansari", "uae exchange transfer to self" }
    ELSE IF category = "Salary & Income" THEN
        {
          "salary", "payroll", "wages", "income", "direct deposit", "paycheck",
          "pay slip", "bonus", "commission", "stipend", "allowance", "reimbursement",
          "refund", "credit from", "deposit from", "payment from", "received from",
          "dividend", "interest credit", "profit share" }
    ELSE IF category = "Food & Beverage" THEN
        {
          "carrefour", "lulu", "spinneys", "choithrams", "union coop", "waitrose",
          "restaurant", "cafe", "kfc", "mcdonald", "pizza", "subway", "dominos",
          "starbucks", "costa", "dunkin", "burger", "food", "dining", "eat", "grocery",
          "supermarket", "hypermarket", "bakery", "deli", "bistro", "catering",
          "takeaway", "delivery", "zomato", "talabat", "deliveroo", "doordash",
          "grubhub", "uber eats", "postmates", "chipotle", "panera", "whole foods",
          "trader joe", "safeway", "kroger", "donuts", "coffee", "espresso",
          "bacio di latte", "butchery", "zinque", "ralphs", "albertsons", "vons",
          "pavilions", "publix", "wegmans", "harris teeter", "noon food", "kcal",
          "just eat", "hunger station", "marsool", "mrsool", "jahez", "tikka",
          "shawarma", "manoushe", "falafel", "hummus", "baqala", "chaat", "karak",
          "cafetera", "moongoat", "dutch bros", "peet's coffee", "peets coffee",
          "blue bottle", "instacart", "fresh direct", "imperfect foods",
          "misfit market", "chick-fil-a", "chickfila", "taco bell", "five guys",
          "shake shack", "in-n-out", "whataburger", "sonic drive", "dairy queen",
          "popeyes", "olive garden", "red lobster", "applebees", "chilis", "ihop",
          "dennys", "wingstop", "buffalo wild wings", "raising canes", "culvers" }
    ELSE IF category = "Transportation & Logistics" THEN
        {
          "adnoc", "eppco", "enoc", "petrol", "fuel", "gas", "gasoline", "taxi",
          "uber", "careem", "metro", "bus", "rta", "parking", "salik", "toll",
          "car wash", "transport", "emirates", "etihad", "flydubai", "air arabia",
          "airline", "flight", "airport", "chevron", "shell", "bp", "76", "exxon",
          "mobil", "lyft", "parking services", "toll roads", "valet", "bolt",
          "indrive", "yango", "aramex", "dhl", "fedex", "ups", "courier", "shipping",
          "freight" }
    ELSE IF category = "Retail & Shopping" THEN
        {
          "mall", "centrepoint", "max", "home centre", "ikea", "ace", "sharaf dg",
          "jumbo", "electronics", "clothing", "fashion", "shop", "store", "retail",
          "amazon", "noon", "souq", "namshi", "h&m", "zara", "nike", "adidas",
          "apple store", "samsung", "virgin", "uniqlo", "target", "walmart", "costco",
          "best buy", "macy", "nordstrom", "kohls", "tj maxx", "ross", "marshalls",
          "shein", "bosta" }
    ELSE IF category = "Healthcare" THEN
        {
          "hospital", "clinic", "pharmacy", "medical", "doctor", "health", "dental",
          "medicare", "aster", "nmc", "mediclinic", "life pharmacy", "boots",
          "aster pharmacy", "day today pharmacy", "seha", "dha", "nmc healthcare",
          "thumbay", "daman", "salon", "spa", "barbershop", "beauty", "cosmetics",
          "skincare", "haircut", "manicure", "pedicure", "massage", "gym", "fitness",
          "24hourfitness", "planet fitness", "la fitness", "crunch", "equinox",
          "flex fitness", "orangetheory" }
    ELSE IF category = "Utilities" THEN
        {
          "dewa", "addc", "sewa", "fewa", "etisalat", "du", "internet", "mobile",
          "telecom", "electricity", "water", "utility", "bill", "wifi", "broadband",
          "phone bill", "electric bill" }
    ELSE IF category = "Entertainment & Media" THEN
        {
          "cinema", "movie", "vox", "reel", "osn", "gaming", "entertainment", "park",
          "beach", "attraction", "ticket", "event", "youtube", "disney", "hulu",
          "shahid", "disneyland", "balloon museum", "sawdust festival", "museum",
          "amusement" }
    ELSE IF category = "Technology" THEN
        {
          "netflix", "spotify", "youtube premium", "amazon prime", "disney+", "adobe",
          "microsoft", "google", "icloud", "dropbox", "zoom", "subscription",
          "monthly", "annual", "recurring", "saas", "software", "app store",
          "play store", "itunes", "office 365", "hbo", "peacock", "paramount+",
          "apple tv", "apple one", "slack", "github", "figma", "notion", "canva",
          "grammarly", "dashlane", "1password", "nordvpn", "expressvpn", "duolingo",
          "headspace", "calm", "audible", "kindle unlimited" }
    ELSE IF category = "Finance & Banking" THEN
        {
          "atm", "cash withdrawal", "withdrawal", "atm withdrawal", "cash advance",
          "atm fee", "withdrawal fee", "bank fee", "service charge", "maintenance fee",
          "overdraft", "annual fee", "interest charge", "finance charge",
          "late payment fee", "wire transfer", "remittance", "foreign exchange",
          "forex", "currency exchange", "uae exchange", "al ansari exchange",
          "lulu exchange", "wall street exchange", "zelle", "venmo", "paypal",
          "western union", "moneygram", "loan repayment", "emi payment",
          "credit card payment", "insurance premium", "ach debit", "ach credit",
          "direct debit", "direct deposit", "pos purchase", "checkcard", "wire to",
          "wire from", "cash app", "apple pay", "google pay", "samsung pay", "tabby",
          "spotii", "cashew", "tamara" }
    ELSE {}

\* lines 265-276
category_priority ==
    << "Internal Transfer", "Salary & Income", "Finance & Banking", "Technology",
       "Food & Beverage", "Transportation & Logistics", "Healthcare", "Utilities",
       "Entertainment & Media", "Retail & Shopping" >>

\* lines 284-287 and 290-291: the confirming words
FinanceTerms ==
    { "atm", "withdrawal", "cash", "fee", "charge", "interest", "maintenance",
      "remittance", "exchange", "zelle", "venmo", "paypal", "western union", "forex",
      "overdraft", "tabby", "spotii", "tamara" }

TechnologyTerms ==
    { "subscription", "monthly", "netflix", "spotify", "prime", "office", "adobe",
      "google", "microsoft", "icloud" }

\* lines 260-261
SalarySignals ==
    { "salary", "payroll", "paycheck", "direct deposit", "wages", "commission payment",
      "bonus credit" }

\* lines 308-333: merchant_patterns, in its order
merchant_patterns ==
    <<
       <<"careem", "Transportation & Logistics">>,
       <<"talabat", "Food & Beverage">>,
       <<"zomato", "Food & Beverage">>,
       <<"mrsool", "Food & Beverage">>,
       <<"marsool", "Food & Beverage">>,
       <<"netflix", "Technology">>,
       <<"spotify", "Technology">>,
       <<"amazon", "Retail & Shopping">>,
       <<"noon", "Retail & Shopping">>,
       <<"namshi", "Retail & Shopping">>,
       <<"adnoc", "Transportation & Logistics">>,
       <<"enoc", "Transportation & Logistics">>,
       <<"eppco", "Transportation & Logistics">>,
       <<"salik", "Transportation & Logistics">>,
       <<"rta", "Transportation & Logistics">>,
       <<"dewa", "Utilities">>,
       <<"etisalat", "Utilities">>,
       <<"e&", "Utilities">>,
       <<"du telecom", "Utilities">>,
       <<"addc", "Utilities">>,
       <<"sewa", "Utilities">>,
       <<"tabby", "Finance & Banking">>,
       <<"spotii", "Finance & Banking">>,
       <<"tamara", "Finance & Banking">>
    >>

\* The general pass without the confirming words.
CategoryHit_Unconfirmed(category, desc_lower) ==
    AnyIn(CategoryKeywords(category), desc_lower)

\* lines 279-294: the general pass returns at this category
CategoryHit(category, desc_lower) ==
    /\ AnyIn(CategoryKeywords(category), desc_lower)
    /\ category = "Finance & Banking" => AnyIn(FinanceTerms, desc_lower)
    /\ category = "Technology" => AnyIn(TechnologyTerms, desc_lower)

\* lines 244-250: re.match(r'^sq\s*\*\s*(.+)', desc_lower); desc_lower is stripped,
\* so group 1 is what follows the star and its whitespace, when anything does.
SqMatch(desc_lower) ==
    IF ~StartsWith(desc_lower, "sq") THEN None
    ELSE LET r1 == LStrip(SubSeq(desc_lower, 3, Len(desc_lower)))
         IN  IF ~StartsWith(r1, "*") THEN None
             ELSE LET r2 == LStrip(SubSeq(r1, 2, Len(r1)))
                  IN  IF Len(r2) = 0 THEN None ELSE [t |-> "match", g1 |-> r2]

\* Passes after the priority loop that end with a label of their own.
AfterPriorityLoop_Uncategorized(desc_lower) ==
    IF AnyIn({"taxi", "uber", "careem", "rta", "bolt", "indrive", "yango"}, desc_lower)
    THEN "Transportation & Logistics"
    ELSE "Uncategorized"

\* lines 296-339: the passes after the priority loop
AfterPriorityLoop(desc_lower) ==
    IF AnyIn({"taxi", "uber", "careem", "rta", "bolt", "indrive", "yango"}, desc_lower)
    THEN "Transportation & Logistics"
    ELSE IF AnyIn({"restaurant", "cafe", "food", "dining", "eat", "talabat", "zomato",
                   "deliveroo", "mrsool", "marsool"}, desc_lower)
    THEN "Food & Beverage"
    ELSE IF AnyIn({"mall", "shop", "store", "retail", "noon", "amazon"}, desc_lower)
    THEN "Retail & Shopping"
    ELSE LET hits == { i \in 1..Len(merchant_patterns) :
                         Contains(desc_lower, merchant_patterns[i][1]) }
         IN  IF hits = {} THEN "Other"
             ELSE merchant_patterns[CHOOSE i \in hits : \A j \in hits : i <= j][2]

\* lines 237-339
RECURSIVE categorize_transaction(_)
categorize_transaction(description) ==
    LET desc_lower == Strip(Lower(description))
        sq_match == SqMatch(desc_lower)
    IN  IF sq_match # None
        THEN LET cat == categorize_transaction(Strip(sq_match.g1))
             IN  IF cat # "Other" THEN cat ELSE "Retail & Shopping"
        ELSE IF \/ Contains(desc_lower, "mobn")
                \/ StartsWith(desc_lower, "mobn transfer")
                \/ is_ibft_reference(description)
        THEN "Internal Transfer"
        ELSE IF AnyIn(SalarySignals, desc_lower) THEN "Salary & Income"
        ELSE LET hits == { i \in 1..Len(category_priority) :
                             CategoryHit(category_priority[i], desc_lower) }
             IN  IF hits # {}
                 THEN category_priority[CHOOSE i \in hits : \A j \in hits : i <= j]
                 ELSE AfterPriorityLoop(desc_lower)

\* ------------------------------------------------------------------------
\* Merchant Normalizer: extract_merchant_name
\* ------------------------------------------------------------------------

IsUpperLetter(c) == c \in UpperSet
IsLowerLetter(c) == c \in LowerSet

\* c.upper() for one (ASCII) character
UpperChar(c) == IF c \in LowerSet THEN UpperOf[c] ELSE c

\* s.upper()
RECURSIVE Upper(_)
Upper(s) ==
    IF Len(s) = 0 THEN ""
    ELSE IF Len(s) = 1 THEN UpperChar(s)
    ELSE Upper(SubSeq(s, 1, Len(s) \div 2)) \o Upper(SubSeq(s, Len(s) \div 2 + 1, Len(s)))

\* Length of the longest run of characters satisfying P that starts after position pos.
RunLen(s, pos, P(_)) ==
    IF pos >= Len(s) THEN 0
    ELSE CHOOSE n \in 0..(Len(s) - pos) :
            /\ pos + n = Len(s) \/ ~P(CharAt(s, pos + n + 1))
            /\ AllChars(s, pos + 1, pos + n, P)

IsDigitChar(c) == c \in Digit

\* s[pos:] (pos characters dropped)
From(s, pos) == SubSeq(s, pos + 1, Len(s))

\* The least element of a non-empty set of numbers.
Least(S) == CHOOSE i \in S : \A j \in S : i <= j

\* The elements of a prefix pattern (line 185-205), matched case-insensitively:
\*   Lit(w)      the word w
\*   Ws          \s+
\*   D4          \d{4}
\*   Alt(ws)     (w1|w2|...)
\*   OptLitWs(w) (w\s+)?
Lit(w) == [k |-> "lit", w |-> w, alts |-> {}]
Ws == [k |-> "ws", w |-> "", alts |-> {}]
D4 == [k |-> "d4", w |-> "", alts |-> {}]
Alt(ws) == [k |-> "alt", w |-> "", alts |-> ws]
OptLitWs(w) == [k |-> "optlitws", w |-> w, alts |-> {}]

LitAt(s, pos, w) == pos + Len(w) <= Len(s) /\ Lower(SubSeq(s, pos + 1, pos + Len(w))) = w

\* The number of characters of s that the pattern tokens[idx..] matches from
\* position pos on, added to pos; -1 when it does not match.  No element of these
\* patterns can give back characters to the next one, so the match is the greedy one.
RECURSIVE MatchTokens(_, _, _, _)
MatchTokens(s, pos, tokens, idx) ==
    IF idx > Len(tokens) THEN pos
    ELSE
        LET tok == tokens[idx]
        IN  CASE tok.k = "lit" ->
                    IF LitAt(s, pos, tok.w)
                    THEN MatchTokens(s, pos + Len(tok.w), tokens, idx + 1) ELSE -1
              [] tok.k = "ws" ->
                    IF RunLen(s, pos, IsWs) >= 1
                    THEN MatchTokens(s, pos + RunLen(s, pos, IsWs), tokens, idx + 1) ELSE -1
              [] tok.k = "d4" ->
                    IF pos + 4 <= Len(s) /\ IsDigits(SubSeq(s, pos + 1, pos + 4))
                    THEN MatchTokens(s, pos + 4, tokens, idx + 1) ELSE -1
              [] tok.k = "alt" ->
                    LET ok == { w \in tok.alts :
                                  /\ LitAt(s, pos, w)
                                  /\ MatchTokens(s, pos + Len(w), tokens, idx + 1) >= 0 }
                    IN  IF ok = {} THEN -1
                        ELSE MatchTokens(s, pos + Len(CHOOSE w \in ok : TRUE), tokens, idx + 1)
              [] tok.k = "optlitws" ->
                    IF LitAt(s, pos, tok.w) /\ RunLen(s, pos + Len(tok.w), IsWs) >= 1
                    THEN MatchTokens(s, pos + Len(tok.w) + RunLen(s, pos + Len(tok.w), IsWs),
                                     tokens, idx + 1)
                    ELSE MatchTokens(s, pos, tokens, idx + 1)

\* lines 185-205: prefix_patterns, in order
prefix_patterns ==
    << <<Lit("checkcard"), Ws, D4, Ws>>,
       <<Lit("mobile"), Ws, Lit("purchase"), Ws, D4, Ws>>,
       <<Lit("pos"), Ws, Lit("purchase"), Ws, D4, Ws>>,
       <<Lit("recurring"), Ws, Lit("purchase"), Ws, D4, Ws>>,
       <<Lit("online"), Ws, Lit("purchase"), Ws, D4, Ws>>,
       <<Lit("debit"), Ws, Lit("card"), Ws, Lit("purchase"), Ws, D4, Ws>>,
       <<Lit("debit"), Ws, Lit("purchase"), Ws, D4, Ws>>,
       <<Lit("ach"), Ws, Lit("debit"), Ws>>,
       <<Lit("ach"), Ws, Lit("credit"), Ws>>,
       <<Lit("wire"), Ws, Lit("transfer"), Ws, Alt({"to", "from"}), Ws>>,
       <<Lit("wire"), Ws, Alt({"to", "from"}), Ws>>,
       <<Lit("zelle"), Ws, Alt({"to", "from", "payment"}), Ws>>,
       <<Lit("venmo"), Ws, Lit("payment"), Ws>>,
       <<Lit("paypal"), Ws, OptLitWs("transfer")>>,
       <<Lit("direct"), Ws, Alt({"debit", "deposit"}), Ws>>,
       <<Lit("atm"), Ws, Lit("withdrawal"), Ws>>,
       <<Lit("checkcard"), Ws>>,
       <<Lit("mobile"), Ws, Lit("purchase"), Ws>>,
       <<Lit("pos"), Ws, Lit("purchase"), Ws>> >>

\* line 207: s = re.sub(pattern, '', s, flags=re.IGNORECASE).strip()
StripPrefix(s, tokens) ==
    LET end == MatchTokens(s, 0, tokens, 1)
    IN  IF end < 0 THEN Strip(s) ELSE Strip(From(s, end))

\* lines 206-207: the patterns one after the other
RECURSIVE StripPrefixes(_, _)
StripPrefixes(s, idx) ==
    IF idx > Len(prefix_patterns) THEN s
    ELSE CHOOSE result \in
            { StripPrefixes(stripped, idx + 1) :
                stripped \in { StripPrefix(s, prefix_patterns[idx]) } } : TRUE

\* lines 210-212: re.match(r'^SQ\s*\*\s*(.+)', s, re.IGNORECASE); s is stripped
StripSquare(s) ==
    LET sq_match == SqMatch(Lower(SubSeq(s, 1, Min(2, Len(s)))) \o From(s, Min(2, Len(s))))
    IN  IF sq_match = None THEN s ELSE Strip(sq_match.g1)

\* re.sub(r'<pattern>$', '', s) for a pattern that cannot match the empty string:
\* the leftmost suffix of s the pattern matches whole is cut off.
CutSuffix(s, Matches(_)) ==
    LET starts == { i \in 1..Len(s) : Matches(From(s, i - 1)) }
    IN  IF starts = {} THEN s ELSE SubSeq(s, 1, Least(starts) - 1)

\* t is matched whole by  \s+[A-Z]{2}\s+\d{5}(-\d{4})?
IsStateZip(t) ==
    LET a == RunLen(t, 0, IsWs)
        b == RunLen(t, a + 2, IsWs)
        z == a + 2 + b
    IN  /\ a >= 1
        /\ Len(t) >= a + 2
        /\ IsUpperLetter(CharAt(t, a + 1)) /\ IsUpperLetter(CharAt(t, a + 2))
        /\ b >= 1
        /\ Len(t) >= z + 5
        /\ IsDigits(SubSeq(t, z + 1, z + 5))
        /\ \/ Len(t) = z + 5
           \/ /\ Len(t) = z + 10
              /\ CharAt(t, z + 6) = "-"
              /\ IsDigits(SubSeq(t, z + 7, z + 10))

\* t is matched whole by  \s+[A-Z]{2}
IsState(t) ==
    LET a == RunLen(t, 0, IsWs)
    IN  /\ a >= 1
        /\ Len(t) = a + 2
        /\ IsUpperLetter(CharAt(t, a + 1)) /\ IsUpperLetter(CharAt(t, a + 2))

\* lines 215-216
StripLocation(s) == Strip(CutSuffix(Strip(CutSuffix(s, IsStateZip)), IsState))

\* line 219: re.sub(r'\s+\d{8,}', '', s): every whitespace run followed by 8 or
\* more digits goes, with all the digits of the run
RECURSIVE RemoveLongNumbers(_)
RemoveLongNumbers(s) ==
    LET starts == { i \in 1..Len(s) :
                      /\ IsWs(CharAt(s, i))
                      /\ RunLen(s, i - 1 + RunLen(s, i - 1, IsWs), IsDigitChar) >= 8 }
    IN  IF starts = {} THEN s
        ELSE LET i == Least(starts)
                 a == RunLen(s, i - 1, IsWs)
                 d == RunLen(s, i - 1 + a, IsDigitChar)
             IN  SubSeq(s, 1, i - 1) \o RemoveLongNumbers(From(s, i - 1 + a + d))

\* line 221: re.sub(r'\b[0-9A-Fa-f]{10,}\b', '', s): every whole word (maximal run
\* of \w characters) made of 10 or more hex digits goes
RECURSIVE RemoveHexCodes(_)
RemoveHexCodes(s) ==
    LET starts == { i \in 1..Len(s) :
                      /\ i = 1 \/ ~IsWordChar(CharAt(s, i - 1))
                      /\ RunLen(s, i - 1, IsWordChar) >= 10
                      /\ RunLen(s, i - 1, IsHexChar) = RunLen(s, i - 1, IsWordChar) }
    IN  IF starts = {} THEN s
        ELSE LET i == Least(starts)
                 n == RunLen(s, i - 1, IsWordChar)
             IN  SubSeq(s, 1, i - 1) \o RemoveHexCodes(From(s, i - 1 + n))

\* lines 219-221
StripReferences(s) == Strip(RemoveHexCodes(Strip(RemoveLongNumbers(s))))

\* t is matched whole by  \s+RECURRING(\s+CHARGE)?  (case-insensitive)
IsRecurring(t) ==
    LET a == RunLen(t, 0, IsWs)
        b == RunLen(t, a + 9, IsWs)
    IN  /\ a >= 1
        /\ LitAt(t, a, "recurring")
        /\ \/ Len(t) = a + 9
           \/ /\ b >= 1
              /\ LitAt(t, a + 9 + b, "charge")
              /\ Len(t) = a + 9 + b + 6

\* line 224
StripRecurring(s) == Strip(CutSuffix(s, IsRecurring))

\* t begins with  \s+#\d+  (the pattern's .*$ takes the rest)
IsStoreNumber(t) ==
    LET a == RunLen(t, 0, IsWs)
    IN  /\ a >= 1
        /\ Len(t) >= a + 2
        /\ CharAt(t, a + 1) = "#"
        /\ CharAt(t, a + 2) \in Digit

\* line 227
StripStoreNumber(s) == Strip(CutSuffix(s, IsStoreNumber))

\* [A-Za-z0-9\s\.\&\'\-]
NameChars == Letters \cup Digit \cup Whitespace \cup {".", "&", "'", "-"}
IsNameChar(c) == c \in NameChars

\* t begins with  \s+\d+\s+[A-Z]  (the pattern's .*$ takes the rest)
IsJunkTail(t) ==
    LET a == RunLen(t, 0, IsWs)
        d == RunLen(t, a, IsDigitChar)
        b == RunLen(t, a + d, IsWs)
    IN  /\ a >= 1 /\ d >= 1 /\ b >= 1
        /\ Len(t) >= a + d + b + 1
        /\ IsUpperLetter(CharAt(t, a + d + b + 1))

\* line 231: re.sub(r'^([A-Za-z][A-Za-z0-9\s\.\&\'\-]{1,40}?)\s+\d+\s+[A-Z].*$', r'\1', s):
\* group 1 is the shortest prefix (a letter, then 1 to 40 name characters) that the
\* junk tail follows
StripJunkTail(s) ==
    LET cuts == { n \in 2..41 :
                    /\ n <= Len(s)
                    /\ IsLetter(CharAt(s, 1))
                    /\ AllChars(s, 2, n, IsNameChar)
                    /\ IsJunkTail(From(s, n)) }
    IN  IF cuts = {} THEN Strip(s) ELSE Strip(SubSeq(s, 1, Least(cuts)))

\* s.title(): a letter is upper-cased when the character before it is not a
\* letter, and lower-cased when it is
TitleChar(c, prev_cased) ==
    IF IsLetter(c) THEN (IF prev_cased THEN LowerChar(c) ELSE UpperChar(c)) ELSE c

\* the title-cased characters of s at positions lo..hi
RECURSIVE TitleFrom(_, _, _)
TitleFrom(s, lo, hi) ==
    IF lo > hi THEN ""
    ELSE IF lo = hi THEN TitleChar(CharAt(s, lo), lo > 1 /\ IsLetter(CharAt(s, lo - 1)))
    ELSE TitleFrom(s, lo, (lo + hi) \div 2) \o TitleFrom(s, (lo + hi) \div 2 + 1, hi)

Title(s) == TitleFrom(s, 1, Len(s))

\* s[:n]
Truncate(s, n) == SubSeq(s, 1, Min(n, Len(s)))

\* lines 233-235: result = s.title().strip(); result[:60] or description[:60]
FinishName(description, s) ==
    LET result == Strip(Title(s))
    IN  IF Len(result) > 0 THEN Truncate(result, 60) ELSE Truncate(description, 60)

\* lines 175-235.  Each step's one result is bound before the next step reads it:
\* s1 after the prefixes (206-207), s2 after SQ (210-212), s3 after the location
\* (215-216), s4 after the references (219-221), s5 after the recurring marker (224),
\* s6 after the store number (227), s7 after the junk tail (231).
extract_merchant_name(description) ==
    CHOOSE result \in
        { FinishName(description, s7) : s7 \in
        { StripJunkTail(s6) : s6 \in
        { StripStoreNumber(s5) : s5 \in
        { StripRecurring(s4) : s4 \in
        { StripReferences(s3) : s3 \in
        { StripLocation(s2) : s2 \in
        { StripSquare(s1) : s1 \in
        { StripPrefixes(Strip(description), 1) } } } } } } } } : TRUE

\* ---- the inputs of SpecClassify

\* Longest hex run appended to a reference prefix.
MaxRun == 12

HexTemplates == {"79B7E39A6295C0DE", "deadbeef12345678", "1234567890123456"}

HexRuns == { SubSeq(t, 1, Min(n, Len(t))) : t \in HexTemplates, n \in 0..MaxRun }

RefPrefixes == {"", "530P", "530p", "53P", "5309", "FT25"}

RefSuffixes == {"", " - M", " - REF", "-m", " - TOOLONG", " / M"}

NoRefParts == [prefix |-> "", run |-> "", suffix |-> "", ref |-> FALSE]

\* Each input is <<description, how it was composed>>.
Descriptions ==
    { <<p \o r \o x, [prefix |-> p, run |-> r, suffix |-> x, ref |-> TRUE]>> :
        p \in RefPrefixes, r \in HexRuns, x \in RefSuffixes }
    \cup
    { <<d, NoRefParts>> :
        d \in { "SALARY - ACME LLC", "SQ *BLUE BOTTLE", "SQ * XYZ", "Carrefour Dxb",
                "MOBN TRANSFER FROM 12345", "ATM WITHDRAWAL", "Netflix", "TABBY",
                "Unknown Vendor", "PAYPAL TRANSFER", "Apple Pay", "Du Telecom", "",
                "POS PURCHASE STARBUCKS", "Zoom Cafe", "Github Monthly",
                "Annual Fee Adobe", "Checkcard Dropbox", "Refund Transfer To 4411",
                "Wire To Pharmacy Mall", "Cinema Parking" } }

InitClassify ==
    /\ \E inp \in Descriptions : clf_input = inp[1] /\ desc_parts = inp[2]
    /\ clf_result = Idle
    /\ cpc = "ready"
    /\ IdleDate
    /\ IdleRefiner
    /\ IdleScan
    /\ IdleMerchant
    /\ IdleHeaders
    /\ IdleBank

\* One call of categorize_transaction(description).
CategorizeTransaction ==
    /\ cpc = "ready"
    /\ clf_result' = categorize_transaction(clf_input)
    /\ cpc' = "done"
    /\ UNCHANGED <<clf_input, desc_parts>>
    /\ UNCHANGED <<dateVars, refinerVars, scanVars, merchantVars, headerVars, bankVars>>

\* A second call of categorize_transaction on the same description; the tables of
\* lines 44-142 are read only (line 280), so they are as the first call found them.
CategorizeTransactionAgain ==
    /\ cpc = "done"
    /\ clf_result' = categorize_transaction(clf_input)
    /\ cpc' = "again"
    /\ UNCHANGED <<clf_input, desc_parts>>
    /\ UNCHANGED <<dateVars, refinerVars, scanVars, merchantVars, headerVars, bankVars>>

NextClassify == CategorizeTransaction \/ CategorizeTransactionAgain

SpecClassify == InitClassify /\ [][NextClassify]_vars

\* ---- properties of the Rule Classifier

\* The description is a reference, alone or followed by a suffix such as " - M".
HasRefSuffix(parts) == parts.suffix \in {"", " - M", " - REF", "-m"}

\* The reference part is a hex run of 8 characters or more.
IsPureHexRef(parts) ==
    LET ref == parts.prefix \o parts.run
    IN  Len(ref) >= 8 /\ AllChars(ref, 1, Len(ref), IsHexChar)

\* The reference part is 3 digits, one letter and a hex run (of 8 or more, as in
\* _ibft_ref_pattern).
IsIbftShapeRef(parts) ==
    /\ Len(parts.prefix) = 4
    /\ AllChars(parts.prefix, 1, 3, LAMBDA c : c \in Digit)
    /\ IsLetter(CharAt(parts.prefix, 4))
    /\ Len(parts.run) >= 8

\* C5: a description whose reference part is a hex run of 8 or more, or 3 digits +
\* one letter + a hex run, as "530P79B7E39A6295 - M" is, is classified Internal
\* Transfer.
C5_ReferenceIsInternalTransfer ==
    (cpc = "done" /\ desc_parts.ref /\ HasRefSuffix(desc_parts)
        /\ (IsPureHexRef(desc_parts) \/ IsIbftShapeRef(desc_parts)))
    => clf_result = "Internal Transfer"

\* The part of C5 the code does meet: hex runs of 8 or more.
PureHexReferenceIsInternalTransfer ==
    (cpc = "done" /\ desc_parts.ref /\ HasRefSuffix(desc_parts) /\ IsPureHexRef(desc_parts))
    => clf_result = "Internal Transfer"

\* ------------------------------------------------------------------------
\* Sheet scan and Amount Resolver: the row loop of process_excel_file.
\* Amounts are counted in hundredths (Amount = 5000 is 50.00).
\* ------------------------------------------------------------------------

\* bool(value) of a cell value
Truthy(cell) ==
    CASE cell.t = "none" -> FALSE
      [] cell.t = "str" -> Len(cell.s) > 0
      [] cell.t = "int" -> cell.v # 0
      [] cell.t = "float" -> cell.c # 0
      [] cell.t = "datetime" -> TRUE

\* s.replace(',', '')
RECURSIVE RemoveCommas(_)
RemoveCommas(s) ==
    IF Len(s) = 0 THEN ""
    ELSE (IF CharAt(s, 1) = "," THEN "" ELSE CharAt(s, 1)) \o RemoveCommas(From(s, 1))

Abs(x) == IF x < 0 THEN -x ELSE x

\* The place of the first point of body, or one past its end
DotPos(body) ==
    IF \E i \in 1..Len(body) : CharAt(body, i) = "."
    THEN Least({ i \in 1..Len(body) : CharAt(body, i) = "." })
    ELSE Len(body) + 1

\* body is digits with at most one point, at place p, and one digit at least
IsDecimal(body, p) ==
    /\ IsDigits(SubSeq(body, 1, p - 1))
    /\ IsDigits(From(body, Min(p, Len(body))))
    /\ Len(SubSeq(body, 1, p - 1)) + Len(From(body, Min(p, Len(body)))) > 0

\* The hundredths such a body spells; decimals after the second are dropped (the
\* cells drawn carry two at most)
DecimalValue(body, p) ==
    StrToInt(SubSeq(body, 1, p - 1)) * 100
        + StrToInt(SubSeq(From(body, Min(p, Len(body))) \o "00", 1, 2))

Unsigned(body) ==
    IF IsDecimal(body, DotPos(body)) THEN Return(DecimalValue(body, DotPos(body)))
    ELSE Raise("ValueError")

Negated(f) == IF f.kind = "raise" THEN f ELSE Return(-f.value)

\* float(s), in hundredths: surrounding whitespace, an optional sign, digits with
\* at most one point and a digit on one side of it at least; ValueError otherwise.
\* Exponents, "inf" and "nan" are not among the cells drawn.
PyFloatStripped(t) ==
    IF Len(t) > 0 /\ CharAt(t, 1) = "-" THEN Negated(Unsigned(From(t, 1)))
    ELSE IF Len(t) > 0 /\ CharAt(t, 1) = "+" THEN Unsigned(From(t, 1))
    ELSE Unsigned(t)

PyFloat(s) == PyFloatStripped(Strip(s))

\* float(str(cell).replace(',', ''))
CellToFloat(cell) == PyFloat(RemoveCommas(PyStr(cell)))

\* lines 732, 734: cell and str(cell).strip() and str(cell).strip() not in ['', '-', 'None']
Populated(cell) ==
    /\ Truthy(cell)
    /\ Len(Strip(PyStr(cell))) > 0
    /\ Strip(PyStr(cell)) \notin {"", "-", "None"}

\* -abs(float(...)) and abs(float(...)), the ValueError passed on
NegAbs(f) == IF f.kind = "raise" THEN f ELSE Return(-Abs(f.value))
PosAbs(f) == IF f.kind = "raise" THEN f ELSE Return(Abs(f.value))

\* lines 731-735 with the credit cell looked at first
DebitCreditAmount_CreditFirst(debit_cell, credit_cell) ==
    IF Populated(credit_cell) THEN PosAbs(CellToFloat(credit_cell))
    ELSE IF Populated(debit_cell) THEN NegAbs(CellToFloat(debit_cell))
    ELSE Return(0)

\* lines 731-735 with a debit cell that reads as zero passed over for the credit cell
DebitCreditAmount_ZeroFallsThrough(debit_cell, credit_cell) ==
    IF Populated(debit_cell) /\ CellToFloat(debit_cell) # Return(0)
    THEN NegAbs(CellToFloat(debit_cell))
    ELSE IF Populated(credit_cell) THEN PosAbs(CellToFloat(credit_cell))
    ELSE Return(0)

\* lines 731-735: the debit/credit columns; amount stays 0 when neither is populated
DebitCreditAmount(debit_cell, credit_cell) ==
    IF Populated(debit_cell) THEN NegAbs(CellToFloat(debit_cell))
    ELSE IF Populated(credit_cell) THEN PosAbs(CellToFloat(credit_cell))
    ELSE Return(0)

\* lines 726-729: the single amount column, float(str(value or '0').replace(',', ''))
SingleColumnAmount(amount_cell) ==
    IF Truthy(amount_cell) THEN CellToFloat(amount_cell) ELSE PyFloat(RemoveCommas("0"))

\* lines 724-737: the amount before the type cell is looked at, or the ValueError
\* that makes the loop skip the row.  A column that is not mapped is 0.
ColumnAmount(amount_col, amount_cell, debit_cell, credit_cell) ==
    IF amount_col # 0 THEN SingleColumnAmount(amount_cell)
    ELSE DebitCreditAmount(debit_cell, credit_cell)

NegativeTypes == {"withdrawal", "debit", "dr", "debit card purchase"}
PositiveTypes == {"deposit", "credit", "cr"}

\* str(type_cell).strip().lower()
TypeVal(type_cell) == Lower(Strip(PyStr(type_cell)))

\* lines 742-747 with the amount negated instead of forced negative
ApplyTypeSign_Negate(type_cell, amount) ==
    IF ~Truthy(type_cell) THEN amount
    ELSE IF TypeVal(type_cell) \in NegativeTypes THEN -amount
    ELSE IF TypeVal(type_cell) \in PositiveTypes THEN Abs(amount)
    ELSE amount

\* lines 742-747: the type cell sets the sign
ApplyTypeSign(type_cell, amount) ==
    IF ~Truthy(type_cell) THEN amount
    ELSE IF TypeVal(type_cell) \in NegativeTypes THEN -Abs(amount)
    ELSE IF TypeVal(type_cell) \in PositiveTypes THEN Abs(amount)
    ELSE amount

\* lines 715, 717: the summary markers looked for in the date and in the description
DateMarkers == {"TOTAL", "SUMMARY", "BALANCE", "OPENING", "CLOSING", "NET", "FLOW"}
DescriptionMarkers == {"TOTAL", "SUMMARY", "MONTHLY", "NET FLOW", "NET DEBIT", "NET CREDIT"}

\* What one iteration of the row loop does: the row is skipped, or a record appended.
Skipped(why) == [kind |-> "skip", why |-> why]
Appended(tx) == [kind |-> "append", tx |-> tx]

\* ---- the inputs of SpecScan

\* Data rows read per file.
MaxRows == 3

DateCells ==
    { None, StrCell("05/01/2024"), DateTimeCell(2024, 1, 15), StrCell("Closing Balance"),
      StrCell("31.12.2024") }

DescriptionCells ==
    { None, StrCell("CHECKCARD 0412 Starbucks #123"), StrCell("Monthly Total"), StrCell("  "),
      StrCell("530P79B7E39A6295 - M"), StrCell("Closing Balance"), StrCell("Monthly Gym Fee"),
      StrCell("Netflix") }

TypeCells ==
    { None, StrCell("Withdrawal"), StrCell("DEBIT"), StrCell(" DR "),
      StrCell("Debit Card Purchase"), StrCell("Deposit"), StrCell("Credit"), StrCell("cr"),
      StrCell("Transfer") }

AmountCells ==
    { None, IntCell(50), IntCell(-50), IntCell(0), FloatCell(-7550), StrCell("1,250.00"),
      StrCell("abc"), StrCell(" ") }

DebitCells ==
    { None, IntCell(50), IntCell(-50), IntCell(0), StrCell("-"), StrCell("None"), StrCell(" "),
      StrCell("1,250.00"), StrCell("0.00"), StrCell("abc") }

CreditCells == { None, IntCell(20), FloatCell(-2050), StrCell("-"), StrCell("x") }

\* The mappings find_data_headers hands over, after the defaults of lines 690-696:
\* the sheet has a type column or not, an amount column or not (0: not mapped).
ColumnMaps ==
    { [header_row |-> 1, date_col |-> 1, description_col |-> 2, type_col |-> t,
       debit_col |-> 4, credit_col |-> 5, amount_col |-> a] : t \in {0, 3}, a \in {0, 6} }

\* bank_info without an 'Account Info' sheet, and with one that names a UAE bank
BankInfos ==
    { [bank_name |-> "Unknown Bank", currency |-> "USD"],
      [bank_name |-> "Emirates NBD", currency |-> "AED"] }

\* The first data row of a file, as <<date, description, type, debit, credit, amount>>.
\* Rows that differ in their amount and type cells carry a plain date and
\* description; rows that differ in date and description carry the amount 50.  The
\* columns the mapping does not name are empty.
FirstRows(cmap) ==
    LET types == IF cmap.type_col # 0 THEN TypeCells ELSE {None}
    IN  (IF cmap.amount_col # 0
         THEN { <<DateTimeCell(2024, 1, 15), StrCell("CHECKCARD 0412 Starbucks #123"),
                  t, None, None, a>> : t \in types, a \in AmountCells }
         ELSE { <<DateTimeCell(2024, 1, 15), StrCell("CHECKCARD 0412 Starbucks #123"),
                  t, d, c, None>> : t \in types, d \in DebitCells, c \in CreditCells })
        \cup
        { <<d, s, None, IF cmap.amount_col # 0 THEN None ELSE IntCell(50), None,
            IF cmap.amount_col # 0 THEN IntCell(50) ELSE None>> :
            d \in DateCells, s \in DescriptionCells }

\* The rows after the first: no description, an amount of 20 or one that is not a
\* number, a type cell or none.
LaterRows(cmap) ==
    { <<DateTimeCell(2024, 1, 15), None, t,
        IF cmap.amount_col # 0 THEN None ELSE a, None,
        IF cmap.amount_col # 0 THEN a ELSE None>> :
        t \in (IF cmap.type_col # 0 THEN {None, StrCell("Deposit")} ELSE {None}),
        a \in {IntCell(20), StrCell("abc")} }

RowInputs(cmap, n) == IF n = 0 THEN FirstRows(cmap) ELSE LaterRows(cmap)

\* ---- one iteration of the row loop

\* worksheet.cell(row, col).value if col else None
CellValue(cells, col) == IF col # 0 THEN cells[col] ELSE None

\* A description that is left empty when the cell is.
RawDescription_Empty(description_cell, n) ==
    IF Truthy(description_cell) THEN Strip(PyStr(description_cell))
    ELSE ""

\* line 754
RawDescription(description_cell, n) ==
    IF Truthy(description_cell) THEN Strip(PyStr(description_cell))
    ELSE "Transaction " \o NatToStr(n + 1)

\* The raw descriptions the rows drawn can carry, and extract_merchant_name and
\* categorize_transaction over them, worked out once.
ScanDescriptions ==
    { Strip(PyStr(c)) : c \in { d \in DescriptionCells : Truthy(d) } }
        \cup { "Transaction " \o NatToStr(n) : n \in 1..(MaxRows + 1) }

merchant_names == [ d \in ScanDescriptions |-> extract_merchant_name(d) ]

rule_categories ==
    [ d \in ScanDescriptions \cup { merchant_names[x] : x \in ScanDescriptions }
        |-> categorize_transaction(d) ]

\* line 755: self.extract_merchant_name(raw_description)
MerchantNameOf(d) ==
    IF d \in DOMAIN merchant_names THEN merchant_names[d] ELSE extract_merchant_name(d)

\* self.categorize_transaction(d)
CategoryOf(d) ==
    IF d \in DOMAIN rule_categories THEN rule_categories[d] ELSE categorize_transaction(d)

\* lines 759-761: the raw description is tried when the merchant name gave Other
OrRawCategory(category, raw_description) ==
    IF category = "Other" THEN CategoryOf(raw_description) ELSE category

\* lines 758-761
RowCategory(merchant_name, raw_description) ==
    OrRawCategory(CategoryOf(merchant_name), raw_description)

\* lines 764-766
TransactionType(type_cell, amount) ==
    IF Truthy(type_cell) THEN Strip(PyStr(type_cell))
    ELSE IF amount < 0 THEN "Withdrawal" ELSE "Deposit"

\* lines 768-776
Transaction(date_str, amount, raw_description, merchant_name, transaction_type, category) ==
    [ Date |-> date_str,
      Amount |-> amount,
      Description |-> raw_description,
      MerchantName |-> merchant_name,
      Type |-> transaction_type,
      Category |-> category,
      Subcategory |-> category ]

\* lines 757-776
CategorizedTransaction(date_str, amount, raw_description, merchant_name, type_cell) ==
    Transaction(date_str, amount, raw_description, merchant_name,
                TransactionType(type_cell, amount),
                RowCategory(merchant_name, raw_description))

\* A row loop without the check of line 750.
EmitRow_KeepZero(date_str, amount, type_cell, raw_description) ==
    Appended(CategorizedTransaction(date_str, amount, raw_description,
                                    MerchantNameOf(raw_description), type_cell))

\* lines 749-777: a row whose amount is zero is skipped, any other appended
EmitRow(date_str, amount, type_cell, raw_description) ==
    IF amount = 0 THEN Skipped("zero amount")
    ELSE Appended(CategorizedTransaction(date_str, amount, raw_description,
                                         MerchantNameOf(raw_description), type_cell))

\* lines 721-751, 780-781: an exception skips the row; the type cell sets the sign
ResolveRow(date, resolved, type_cell, raw_description) ==
    IF date.kind = "raise" THEN Skipped("exception")
    ELSE IF resolved.kind = "raise" THEN Skipped("amount error")
    ELSE EmitRow(date.value, ApplyTypeSign(type_cell, resolved.value), type_cell,
                 raw_description)

\* lines 712-777: the checks of the date and description cells, then the rest
ProcessRow(date_cell, description_cell, type_cell, debit_cell, credit_cell, amount_cell, amount_col, bank_currency, n, now) ==
    IF ~Truthy(date_cell) THEN Skipped("no date")
    ELSE IF AnyIn(DateMarkers, Upper(PyStr(date_cell))) THEN Skipped("date marker")
    ELSE IF /\ Truthy(description_cell)
            /\ AnyIn(DescriptionMarkers, Upper(PyStr(description_cell)))
         THEN Skipped("description marker")
    ELSE ResolveRow(detect_date_format(date_cell, bank_currency, now),
                    ColumnAmount(amount_col, amount_cell, debit_cell, credit_cell),
                    type_cell, RawDescription(description_cell, n))

\* lines 704-781: the body of the row loop for a row with these cells, n records
\* appended before it
ScanRowOutcome(cells, cmap, info, n, now) ==
    ProcessRow(CellValue(cells, cmap.date_col), CellValue(cells, cmap.description_col),
               CellValue(cells, cmap.type_col), CellValue(cells, cmap.debit_col),
               CellValue(cells, cmap.credit_col), CellValue(cells, cmap.amount_col),
               cmap.amount_col, info.currency, n, now)

\* ---- the specification of the sheet scan

InitScan ==
    /\ EXCEL_AVAILABLE \in BOOLEAN
    /\ bank_info = Idle
    /\ column_map = Idle
    /\ row = 0
    /\ all_transactions = <<>>
    /\ last_row = Idle
    /\ prev_row = Idle
    /\ file_result = Idle
    /\ refinement = Idle
    /\ spc = "call"
    /\ IdleDate
    /\ IdleRefiner
    /\ IdleClassify
    /\ IdleMerchant
    /\ IdleHeaders
    /\ IdleBank

\* The pairs process_excel_file returns: (result, None) and (None, message)
ResultPair(envelope) == [ok |-> envelope, err |-> None]

\* A pair that carries no message.
ErrorPair_Null(message) == [ok |-> None, err |-> None]

ErrorPair(message) == [ok |-> None, err |-> StrCell(message)]

\* lines 649-650
ReturnUnavailable ==
    /\ spc = "call"
    /\ ~EXCEL_AVAILABLE
    /\ file_result' = ErrorPair("openpyxl not available - using demo data")
    /\ spc' = "scanned"
    /\ UNCHANGED <<bank_info, column_map, row, all_transactions, last_row, prev_row, EXCEL_AVAILABLE, refinement>>
    /\ UNCHANGED <<dateVars, refinerVars, classifyVars, merchantVars, headerVars, bankVars>>

\* lines 654-702: the workbook is loaded, bank_info is read from the 'Account Info'
\* sheet and the headers of the first transaction sheet are located
LoadWorkbook ==
    /\ spc = "call"
    /\ EXCEL_AVAILABLE
    /\ bank_info' \in BankInfos
    /\ column_map' \in ColumnMaps
    /\ spc' = "scan"
    /\ UNCHANGED <<row, all_transactions, last_row, prev_row, EXCEL_AVAILABLE, file_result, refinement>>
    /\ UNCHANGED <<dateVars, refinerVars, classifyVars, merchantVars, headerVars, bankVars>>

\* What str(e) reads for the exceptions drawn: load_workbook on a file that is no
\* workbook, and the attribute a chart sheet lacks
LoadErrors == { "File is not a zip file" }
SheetErrors == { "'Chartsheet' object has no attribute 'max_row'" }

\* lines 800-804: an exception raised outside the row loop's own try is caught by
\* the outer handler
FileError(message) ==
    /\ file_result' = ErrorPair("Error processing Excel file: " \o message)
    /\ spc' = "scanned"

\* lines 654, 800-804: load_workbook raises
LoadWorkbookFails ==
    /\ spc = "call"
    /\ EXCEL_AVAILABLE
    /\ \E message \in LoadErrors : FileError(message)
    /\ UNCHANGED <<bank_info, column_map, row, all_transactions, last_row, prev_row, EXCEL_AVAILABLE, refinement>>
    /\ UNCHANGED <<dateVars, refinerVars, classifyVars, merchantVars, headerVars, bankVars>>

\* lines 684-689, 800-804: the next sheet is not a worksheet, find_data_headers
\* raises on it
NextSheetFails ==
    /\ spc = "scan"
    /\ \E message \in SheetErrors : FileError(message)
    /\ UNCHANGED <<bank_info, column_map, row, all_transactions, last_row, prev_row, EXCEL_AVAILABLE, refinement>>
    /\ UNCHANGED <<dateVars, refinerVars, classifyVars, merchantVars, headerVars, bankVars>>

\* What is kept of a row once the next one is read: "append" or why it was skipped,
\* and the mapping it was read with
Remembered(r) ==
    IF r = Idle THEN Idle
    ELSE [ why |-> IF r.outcome.kind = "append" THEN "append" ELSE r.outcome.why,
           column_map |-> r.column_map ]

\* A row loop whose try encloses the loop: a row that is skipped ends the sheet's
\* records.
RowScanned_Abort(cells, outcome) ==
    /\ all_transactions' = IF outcome.kind = "append"
                           THEN Append(all_transactions, outcome.tx)
                           ELSE <<>>
    /\ last_row' = [cells |-> cells, column_map |-> column_map, outcome |-> outcome]
    /\ prev_row' = Remembered(last_row)

\* What the row loop makes of all_transactions and last_row for a row with this outcome
RowScanned(cells, outcome) ==
    /\ all_transactions' = IF outcome.kind = "append"
                           THEN Append(all_transactions, outcome.tx)
                           ELSE all_transactions
    /\ last_row' = [cells |-> cells, column_map |-> column_map, outcome |-> outcome]
    /\ prev_row' = Remembered(last_row)

\* lines 703-781: the next row of the sheet is read
ScanRow ==
    /\ spc = "scan"
    /\ row < MaxRows
    /\ \E cells \in RowInputs(column_map, row) :
         RowScanned(cells, ScanRowOutcome(cells, column_map, bank_info,
                                          Len(all_transactions), "2026-11-01"))
    /\ row' = row + 1
    /\ UNCHANGED <<bank_info, column_map, EXCEL_AVAILABLE, file_result, refinement, spc>>
    /\ UNCHANGED <<dateVars, refinerVars, classifyVars, merchantVars, headerVars, bankVars>>

\* lines 684-696: the sheet is over and the workbook has another one, with its own
\* mapping
NextSheet ==
    /\ spc = "scan"
    /\ column_map' \in ColumnMaps \ {column_map}
    /\ UNCHANGED <<bank_info, row, all_transactions, last_row, prev_row, EXCEL_AVAILABLE, file_result, refinement, spc>>
    /\ UNCHANGED <<dateVars, refinerVars, classifyVars, merchantVars, headerVars, bankVars>>

\* What the external classifier answers to the one call per batch, for the lists the
\* scan hands over: the call fails, every record gets a label, the answer is one
\* label short
ScanResponses(n) ==
    { [kind |-> "throw", cats |-> <<>>, text |-> ""],
      [kind |-> "list", cats |-> [ k \in 1..n |-> "Education" ], text |-> ""],
      [kind |-> "list", cats |-> [ k \in 1..(n - 1) |-> "Groceries" ], text |-> ""] }

\* What is remembered of one call of the external classifier: the batch it was made
\* for and whether the batch's try block failed
Submission(i, n, resp) == [start |-> i, len |-> n, failed |-> ~BatchSucceeds(resp, n)]

\* A batch loop that a failed batch ends.
RECURSIVE RefinedFrom_StopOnFailure(_, _, _)
RefinedFrom_StopOnFailure(txs, i, submitted) ==
    IF i >= Len(txs) \/ (Len(submitted) > 0 /\ submitted[Len(submitted)].failed)
    THEN {[txs |-> txs, submitted |-> submitted]}
    ELSE UNION { RefinedFrom_StopOnFailure(
                     RefineBatchRecords(txs, i, Min(BatchSize, Len(txs) - i), resp),
                     i + BatchSize,
                     Append(submitted, Submission(i, Min(BatchSize, Len(txs) - i), resp))) :
                 resp \in ScanResponses(Min(BatchSize, Len(txs) - i)) }

\* lines 370-522: the lists the batch loop can leave, from the batch that starts at
\* i, each with the calls made to the external classifier
RECURSIVE RefinedFrom(_, _, _)
RefinedFrom(txs, i, submitted) ==
    IF i >= Len(txs)
    THEN {[txs |-> txs, submitted |-> submitted]}
    ELSE UNION { RefinedFrom(
                     RefineBatchRecords(txs, i, Min(BatchSize, Len(txs) - i), resp),
                     i + BatchSize,
                     Append(submitted, Submission(i, Min(BatchSize, Len(txs) - i), resp))) :
                 resp \in ScanResponses(Min(BatchSize, Len(txs) - i)) }

\* lines 788-790 with 341-528: what becomes of the list.  ai_categorize_transactions
\* is not called for an empty list; without an API key it returns the list as it
\* is and calls nothing; with one the batch loop runs.
Refined(txs) ==
    IF Len(txs) = 0
    THEN {[txs |-> txs, refinement |-> [invoked |-> FALSE, api_key |-> FALSE, submitted |-> <<>>]]}
    ELSE {[txs |-> txs, refinement |-> [invoked |-> TRUE, api_key |-> FALSE, submitted |-> <<>>]]}
         \cup { [txs |-> r.txs,
                 refinement |-> [invoked |-> TRUE, api_key |-> TRUE, submitted |-> r.submitted]] :
                 r \in RefinedFrom(txs, 0, <<>>) }

\* lines 793-798
Envelope(txs, info) ==
    [ transactions |-> txs,
      bank_info |-> info,
      total_rows |-> Len(txs),
      processing_mode |-> "Dynamic Excel Processing with AI Categorization" ]

\* lines 785-798: the last sheet is over; the combined list goes through
\* ai_categorize_transactions (SpecRefiner), which changes Category and Subcategory
\* only, and the envelope is returned
EndScan ==
    /\ spc = "scan"
    /\ \E r \in Refined(all_transactions) :
          /\ file_result' = ResultPair(Envelope(r.txs, bank_info))
          /\ refinement' = r.refinement
    /\ spc' = "scanned"
    /\ UNCHANGED <<bank_info, column_map, row, all_transactions, last_row, prev_row, EXCEL_AVAILABLE>>
    /\ UNCHANGED <<dateVars, refinerVars, classifyVars, merchantVars, headerVars, bankVars>>

NextScan ==
    \/ ReturnUnavailable
    \/ LoadWorkbook
    \/ LoadWorkbookFails
    \/ ScanRow
    \/ NextSheet
    \/ NextSheetFails
    \/ EndScan

SpecScan == InitScan /\ [][NextScan]_vars

\* ---- properties of the Amount Resolver

\* The cells the last row read was scanned with.
LastTypeCell == CellValue(last_row.cells, last_row.column_map.type_col)
LastDebitCell == CellValue(last_row.cells, last_row.column_map.debit_col)
LastCreditCell == CellValue(last_row.cells, last_row.column_map.credit_col)
LastAmountCell == CellValue(last_row.cells, last_row.column_map.amount_col)

LastAppended == last_row # Idle /\ last_row.outcome.kind = "append"
LastAmount == last_row.outcome.tx.Amount

\* The last row read got past the checks of the date and description cells.
LastValidated ==
    /\ last_row # Idle
    /\ \/ last_row.outcome.kind = "append"
       \/ last_row.outcome.why \in {"amount error", "zero amount"}

AmountMode == last_row.column_map.amount_col # 0

\* The numbers the string cells drawn spell, in hundredths.
NumericStrings == { <<"1,250.00", 125000>>, <<"0.00", 0>> }

IsNumber(cell) ==
    \/ cell.t \in {"int", "float"}
    \/ cell.t = "str" /\ \E p \in NumericStrings : p[1] = cell.s

\* The number a cell holds, in hundredths.
NumberIn(cell) ==
    CASE cell.t = "int" -> cell.v * 100
      [] cell.t = "float" -> cell.c
      [] cell.t = "str" -> (CHOOSE p \in NumericStrings : p[1] = cell.s)[2]

Sign(x) == IF x < 0 THEN -1 ELSE IF x > 0 THEN 1 ELSE 0

\* A cell that is not empty, not blank and not one of the placeholders.
NonEmpty(cell) == cell # None /\ cell # IntCell(0) /\ Strip(PyStr(cell)) \notin {"", "-", "None"}

\* The sign the columns give the amount: that of the cell in the single amount
\* column; minus for the debit column, plus for the credit column.
RawColumnSign ==
    IF AmountMode THEN Sign(NumberIn(LastAmountCell))
    ELSE IF NonEmpty(LastDebitCell) THEN -1 ELSE 1

\* The type cell holds one of these words, whatever its case and the blanks around it.
TypeIs(words) ==
    /\ LastTypeCell.t = "str"
    /\ Lower(Strip(LastTypeCell.s)) \in words

\* C9 as stated: with withdrawal/debit/dr the emitted amount is negative, with
\* deposit/credit/cr it is positive, whatever the raw value's sign and column; with
\* any other type cell, or none, the amount has the sign the column gives it.
C9_SignMatchesListedIndicator ==
    LastAppended =>
        /\ TypeIs({"withdrawal", "debit", "dr"}) => LastAmount < 0
        /\ TypeIs({"deposit", "credit", "cr"}) => LastAmount > 0
        /\ ~TypeIs({"withdrawal", "debit", "dr", "deposit", "credit", "cr"})
             => Sign(LastAmount) = RawColumnSign

\* C9: with withdrawal/debit/dr, and with debit card purchase as well, the emitted
\* amount is negative; with deposit/credit/cr it is positive, whatever the raw
\* value's sign and whichever column it came from; with any other type cell, or
\* none, the amount has the sign the column gives it.
C9_SignMatchesIndicator ==
    LastAppended =>
        /\ TypeIs({"withdrawal", "debit", "dr", "debit card purchase"}) => LastAmount < 0
        /\ TypeIs({"deposit", "credit", "cr"}) => LastAmount > 0
        /\ ~TypeIs({"withdrawal", "debit", "dr", "debit card purchase", "deposit", "credit", "cr"})
             => Sign(LastAmount) = RawColumnSign

\* The indicator wins over the column: a debit-column value emitted positive.
C9_Witness ==
    /\ LastAppended
    /\ ~AmountMode /\ NonEmpty(LastDebitCell)
    /\ TypeIs({"deposit", "credit", "cr"})
    /\ LastAmount > 0

\* The cell the debit/credit rule takes the value from: the debit cell when it is
\* not empty, the credit cell otherwise.
DecidingCell == IF NonEmpty(LastDebitCell) THEN LastDebitCell ELSE LastCreditCell

\* C10 as stated: in debit/credit mode a row whose debit cell is not empty is
\* emitted with amount = -abs(debit value), otherwise a row whose credit cell is
\* not empty is emitted with amount = +abs(credit value); the debit cell decides
\* when both are populated.  (Read for rows that pass validation and cells that
\* hold a number other than zero.)
C10_DebitCellDecides ==
    (LastValidated /\ ~AmountMode /\ NonEmpty(DecidingCell)
        /\ IsNumber(DecidingCell) /\ NumberIn(DecidingCell) # 0)
    => /\ LastAppended
       /\ LastAmount = IF NonEmpty(LastDebitCell) THEN -Abs(NumberIn(LastDebitCell))
                       ELSE Abs(NumberIn(LastCreditCell))

\* C10: in debit/credit mode a validated row whose debit cell is not empty and
\* holds a number other than zero is emitted with the magnitude of that number,
\* negative unless the type cell says deposit/credit/cr; otherwise a row whose
\* credit cell is not empty and holds such a number is emitted with its magnitude,
\* positive unless the type cell says withdrawal/debit/dr/debit card purchase; the
\* debit cell decides when both are populated.
C10_DebitThenCreditUnlessTyped ==
    (LastValidated /\ ~AmountMode /\ NonEmpty(DecidingCell)
        /\ IsNumber(DecidingCell) /\ NumberIn(DecidingCell) # 0)
    => /\ LastAppended
       /\ LastAmount =
            IF TypeIs({"deposit", "credit", "cr"}) THEN Abs(NumberIn(DecidingCell))
            ELSE IF TypeIs({"withdrawal", "debit", "dr", "debit card purchase"})
                 THEN -Abs(NumberIn(DecidingCell))
            ELSE IF NonEmpty(LastDebitCell) THEN -Abs(NumberIn(LastDebitCell))
            ELSE Abs(NumberIn(LastCreditCell))

\* Both cells populated, no type cell: the debit cell decided.
C10_Witness ==
    /\ LastAppended /\ ~AmountMode
    /\ LastTypeCell = None
    /\ NonEmpty(LastDebitCell) /\ IsNumber(LastDebitCell)
    /\ NonEmpty(LastCreditCell) /\ IsNumber(LastCreditCell)
    /\ LastAmount = -Abs(NumberIn(LastDebitCell))

\* ---- properties of the sheet scan

\* The cell the amount of the last row was read from: the cell of the amount column
\* when one is mapped, else the debit cell when it is not empty, else the credit cell.
LastSourceCell == IF AmountMode THEN LastAmountCell ELSE DecidingCell

\* That cell holds text float() does not take.  (An empty cell of the amount column
\* reads as '0'; an empty cell or a placeholder in the debit/credit columns is not
\* read at all.)
SourceFailsToParse ==
    /\ IF AmountMode THEN Truthy(LastSourceCell) ELSE NonEmpty(LastSourceCell)
    /\ ~IsNumber(LastSourceCell)

\* The amount the last row resolves to is zero: the cell read holds zero, or there
\* is no cell to read.
ResolvesToZero ==
    \/ IsNumber(LastSourceCell) /\ NumberIn(LastSourceCell) = 0
    \/ AmountMode /\ ~Truthy(LastSourceCell)
    \/ ~AmountMode /\ ~NonEmpty(LastSourceCell)

LastSkipped == last_row # Idle /\ last_row.outcome.kind = "skip"

\* The step of the row loop: one more row read.
RowStep == row' = row + 1

C11_State ==
    /\ \A k \in 1..Len(all_transactions) : all_transactions[k].Amount # 0
    /\ (LastValidated /\ (SourceFailsToParse \/ ResolvesToZero)) => LastSkipped

C11_Step ==
    (RowStep /\ last_row'.outcome.kind = "skip"
        /\ last_row'.outcome.why \in {"amount error", "zero amount"})
    => /\ all_transactions' = all_transactions
       /\ spc' = "scan" /\ file_result' = Idle

\* C11: a validated row whose amount cell fails to parse as a number, or whose
\* resolved amount is exactly zero, produces no record and leaves the scan running
\* (the list is as it was, the loop goes on to the next row); no record of the
\* list ever has an amount of zero.
C11_UnparsedAndZeroSkipped == [](C11_State) /\ [][C11_Step]_vars

\* A record from the first row, text that is no number in the second: the row is
\* skipped, the record is kept and the scan goes on.
C11_Witness ==
    /\ LastValidated /\ SourceFailsToParse /\ LastSkipped
    /\ Len(all_transactions) = 1 /\ all_transactions[1].Amount # 0
    /\ spc = "scan"

\* ------------------------------------------------------------------------
\* Merchant Normalizer: extract_merchant_name called on a description, then on
\* the name it returned
\* ------------------------------------------------------------------------

\* ---- the inputs of SpecMerchant

\* What a description starts with: nothing, the Square marker, a processor prefix.
NameLeads == { "", "SQ *", "POS PURCHASE ", "CHECKCARD 0412 ", "ACH DEBIT ", "  " }

\* What follows: nothing, or another processor prefix.
NameSeconds == { "", "ACH DEBIT ", "CHECKCARD 0412 " }

\* The merchant's own text: a name, a name in capitals, a bare reference code,
\* nothing, a name of 67 characters.
NameCores ==
    { "Starbucks", "BLUE BOTTLE COFFEE", "deadbeef1234", "",
      "The Very Long Named Trading Company Of Greater Springfield And Sons" }

\* What trails it: nothing, a store number, a state, a reference number, the
\* recurring marker.
NameTails == { "", " #123", " WA", " 12345678", " RECURRING" }

NameInputs ==
    { [lead |-> l, second |-> m, core |-> c, tail |-> t] :
        l \in NameLeads, m \in NameSeconds, c \in NameCores, t \in NameTails }

InitMerchant ==
    /\ name_parts \in NameInputs
    /\ raw_input = name_parts.lead \o name_parts.second \o name_parts.core \o name_parts.tail
    /\ merchant_name1 = Idle
    /\ merchant_name2 = Idle
    /\ mpc = "ready"
    /\ IdleDate
    /\ IdleRefiner
    /\ IdleClassify
    /\ IdleScan
    /\ IdleHeaders
    /\ IdleBank

\* lines 175-235: the call on the description
ExtractMerchantName ==
    /\ mpc = "ready"
    /\ merchant_name1' = extract_merchant_name(raw_input)
    /\ mpc' = "done"
    /\ UNCHANGED <<raw_input, name_parts, merchant_name2>>
    /\ UNCHANGED <<dateVars, refinerVars, classifyVars, scanVars, headerVars, bankVars>>

\* lines 175-235: the call on the name the first call returned
ExtractMerchantNameAgain ==
    /\ mpc = "done"
    /\ merchant_name2' = extract_merchant_name(merchant_name1)
    /\ mpc' = "again"
    /\ UNCHANGED <<raw_input, name_parts, merchant_name1>>
    /\ UNCHANGED <<dateVars, refinerVars, classifyVars, scanVars, headerVars, bankVars>>

NextMerchant == ExtractMerchantName \/ ExtractMerchantNameAgain

SpecMerchant == InitMerchant /\ [][NextMerchant]_vars

\* ---- properties of the Merchant Normalizer

\* C12: for every description d, extract_merchant_name(extract_merchant_name(d))
\* equals extract_merchant_name(d): a second pass strips nothing further, also
\* when one step exposes text an earlier step removes (the Square marker before a
\* processor prefix, two processor prefixes in a row).
C12_SecondPassStripsNothing == mpc = "again" => merchant_name2 = merchant_name1

\* A string reads as title() leaves it: a letter that follows a letter is in lower
\* case, any other letter in upper case.
IsTitleCased(s) ==
    \A i \in 1..Len(s) :
        IsLetter(CharAt(s, i)) =>
            IF i > 1 /\ IsLetter(CharAt(s, i - 1)) THEN IsLowerLetter(CharAt(s, i))
            ELSE IsUpperLetter(CharAt(s, i))

\* C14: for every description the name returned has at most 60 characters and is
\* title-cased, where the steps left a name and where they left nothing.
C14_ShortAndTitleCased ==
    mpc = "done" => Len(merchant_name1) <= 60 /\ IsTitleCased(merchant_name1)

\* C13: every record the sheet scan appends has a non-empty merchant name,
\* whatever the description cell of the validated row holds: nothing, blanks only,
\* or text the steps of the normalizer reduce to nothing.
C13_MerchantNameNonEmpty ==
    \A k \in 1..Len(all_transactions) : all_transactions[k].MerchantName # ""

\* ---- closure and determinism of the Rule Classifier

\* Every word the classifier looks for: the keyword tables, the salary signals, the
\* words of the later passes and the merchant shorthands.
ClassifierWords ==
    UNION { CategoryKeywords(c) : c \in Categories }
        \cup SalarySignals
        \cup { "mobn" }
        \cup { "taxi", "uber", "careem", "rta", "bolt", "indrive", "yango" }
        \cup { "restaurant", "cafe", "food", "dining", "eat", "talabat", "zomato",
               "deliveroo", "mrsool", "marsool" }
        \cup { "mall", "shop", "store", "retail", "noon", "amazon" }
        \cup { merchant_patterns[i][1] : i \in 1..Len(merchant_patterns) }

\* The description holds none of them, is no Square payment and no reference.
NothingMatches(description) ==
    /\ ~AnyIn(ClassifierWords, Strip(Lower(description)))
    /\ SqMatch(Strip(Lower(description))) = None
    /\ ~is_ibft_reference(description)

C15_State ==
    cpc \in {"done", "again"} =>
        /\ clf_result \in Categories
        /\ NothingMatches(clf_input) => clf_result = "Other"

C15_Step == (cpc = "done" /\ cpc' = "again") => clf_result' = clf_result

RaisedWhy == { "amount error", "exception" }

C16_Step ==
    (RowStep /\ last_row'.outcome.kind = "skip" /\ last_row'.outcome.why \in RaisedWhy)
    => /\ all_transactions' = all_transactions
       /\ column_map' = column_map /\ bank_info' = bank_info
       /\ spc' = "scan" /\ file_result' = Idle

\* The records read before and after such a row are the ones returned.
C16_State ==
    (spc = "scanned" /\ last_row # Idle /\ file_result.err = None)
    => /\ Len(file_result.ok.transactions) = Len(all_transactions)
       /\ file_result.ok.total_rows = Len(all_transactions)

\* C16: when the processing of a row raises an exception, that row alone gives no
\* record: the records appended before it are kept, the loop goes on with the next
\* row and the next sheet, and the records reach the result.
C16_RowFaultIsolated == [][C16_Step]_vars /\ [](C16_State)

\* A row that raised, then a row of another sheet that was appended.
C16_Witness ==
    /\ row = 2
    /\ prev_row # Idle /\ prev_row.why \in RaisedWhy
    /\ prev_row.column_map # last_row.column_map
    /\ LastAppended /\ Len(all_transactions) = 1

\* ---- the pair process_excel_file returns

\* The call has returned.
FileReturned == spc = "scanned"

\* The call returned before a workbook was there to read: openpyxl is missing, or
\* load_workbook raised.
NoWorkbook == ~EXCEL_AVAILABLE \/ bank_info = Idle

\* C17: process_excel_file returns a pair, never an exception: either (result, None)
\* with the result envelope or (None, message), never both set and never both
\* None; without openpyxl, and with a workbook that cannot be loaded, it is
\* (None, message).
C17_ResultOrError ==
    /\ ~FileReturned => file_result = Idle
    /\ FileReturned =>
        /\ file_result # Idle
        /\ (file_result.ok = None) # (file_result.err = None)
        /\ file_result.err # None => file_result.err.t = "str" /\ file_result.err.s # ""
        /\ NoWorkbook => file_result.ok = None /\ file_result.err # None

\* load_workbook raised: (None, message).
C17_Witness ==
    /\ FileReturned /\ EXCEL_AVAILABLE /\ bank_info = Idle
    /\ file_result.ok = None
    /\ file_result.err = StrCell("Error processing Excel file: File is not a zip file")

\* ---- the Batch Refiner on invalid and short answers

\* The answer to batch b is a list shorter than the batch.
ShortAnswer(b) == outcomes[b].kind = "list" /\ Len(outcomes[b].cats) < BatchLen(b)

\* Record k of the refiner's list is as it was handed over.
Retained(k) ==
    /\ transactions[k].Category = before[k].Category
    /\ transactions[k].Subcategory = before[k].Subcategory

\* After every answer the loop is at the next batch, and at the end every batch
\* was submitted and every record returned.
RefinerContinues ==
    /\ rpc = "loop" => batch_start = Len(outcomes) * BatchSize
    /\ (rpc = "done" /\ api_key) =>
        /\ Len(outcomes) * BatchSize >= Len(before)
        /\ Len(returned) = Len(before)

\* C18 as stated: when the answer to a batch is invalid JSON or a list shorter than
\* the batch, every record of the batch retains its rule-based category, and the
\* next batch is processed.
C18_InvalidOrShortRetainsAll ==
    rpc \in {"loop", "done"} =>
        /\ \A b \in 1..Len(outcomes) :
            (outcomes[b].kind = "badjson" \/ ShortAnswer(b)) =>
                \A k \in BatchRange(b) : Retained(k)
        /\ RefinerContinues

\* C18: when the answer to a batch is invalid JSON every record of the batch
\* retains its rule-based category; when it is a list of k labels, k below the
\* batch's length, the records after the k-th retain theirs and the first k take
\* the labels; in both cases the next batch is processed.
C18_InvalidRetainsShortPads ==
    rpc \in {"loop", "done"} =>
        /\ \A b \in 1..Len(outcomes) :
            /\ outcomes[b].kind = "badjson" => \A k \in BatchRange(b) : Retained(k)
            /\ ShortAnswer(b) =>
                \A k \in BatchRange(b) :
                    IF k - BatchFirst(b) > Len(outcomes[b].cats) THEN Retained(k)
                    ELSE transactions[k].Category = outcomes[b].cats[k - BatchFirst(b)]
        /\ RefinerContinues

\* Invalid JSON for the first batch, a list of one label for the second, whose
\* first record took it, and a third batch after them.
C18_Witness ==
    /\ rpc = "done"
    /\ Len(outcomes) = 3
    /\ outcomes[1].kind = "badjson"
    /\ ShortAnswer(2) /\ Len(outcomes[2].cats) = 1
    /\ transactions[BatchFirst(2) + 1].Category # before[BatchFirst(2) + 1].Category
    /\ Retained(BatchFirst(2) + 2)

\* ---- rows with a malformed date or without a description

LastDateCell == CellValue(last_row.cells, last_row.column_map.date_col)
LastDescriptionCell == CellValue(last_row.cells, last_row.column_map.description_col)

\* The date strings drawn that detect_date_format reads as a date.
WellFormedDates == { "05/01/2024" }

\* A date cell that is not empty and not a date: text in none of the formats.
MalformedDate(cell) == cell # None /\ cell.t = "str" /\ cell.s \notin WellFormedDates

\* What datetime.now() reads during the scan.
ScanToday == "2026-11-01"

\* The reasons a row is skipped for that have nothing to do with its date cell.
OtherThanDate == { "description marker", "amount error", "zero amount" }

\* The reasons a row is skipped for that have nothing to do with its description.
OtherThanDescription == { "no date", "date marker", "amount error", "zero amount" }

\* The loop goes on after every row, skipped or not.
C19_Step == RowStep => spc' = "scan" /\ file_result' = Idle

\* C19 as stated: a row whose date cell is malformed (not empty, not a date), and a
\* row whose description cell is missing, is skipped without a record, and the scan
\* goes on with the next row.
C19_MalformedOrMissingSkipped ==
    /\ []((last_row # Idle /\ (MalformedDate(LastDateCell) \/ LastDescriptionCell = None))
            => LastSkipped)
    /\ [][C19_Step]_vars

C19_State ==
    last_row # Idle =>
        /\ (MalformedDate(LastDateCell) /\ ~AnyIn(DateMarkers, Upper(PyStr(LastDateCell))))
            => \/ LastAppended /\ last_row.outcome.tx.Date = ScanToday
               \/ LastSkipped /\ last_row.outcome.why \in OtherThanDate
        /\ (LastDescriptionCell = None)
            => \/ /\ LastAppended
                  /\ last_row.outcome.tx.Description
                        = "Transaction " \o NatToStr(Len(all_transactions))
               \/ LastSkipped /\ last_row.outcome.why \in OtherThanDescription

\* C19: a row whose date cell is malformed is skipped only when the text holds a
\* summary marker; otherwise it is read with the current date.  A row whose
\* description cell is missing is not skipped for that: its description is
\* "Transaction N", N being its place in the list.  Such rows are skipped for the
\* reasons any row is, and the scan goes on with the next row.
C19_MalformedDatedTodayMissingNumbered == [](C19_State) /\ [][C19_Step]_vars

\* A row with the date cell "31.12.2024" and no description cell, appended.
C19_Witness ==
    /\ LastAppended
    /\ MalformedDate(LastDateCell) /\ LastDescriptionCell = None
    /\ last_row.outcome.tx.Date = ScanToday
    /\ last_row.outcome.tx.Description = "Transaction 1"

\* ------------------------------------------------------------------------
\* Header Locator: find_data_headers
\* ------------------------------------------------------------------------

\* A worksheet is [max_row, max_column, texts]: texts maps <<row, col>> to the text
\* of the cell, for the cells that hold any.

\* line 564
header_keywords ==
    { "date", "amount", "description", "particular", "narration", "debit", "credit",
      "balance", "type", "reference" }

\* line 571: str(worksheet.cell(row, col).value or '').lower().strip()
HeaderCellValue(ws, r, c) ==
    IF <<r, c>> \in DOMAIN ws.texts THEN Strip(Lower(ws.texts[<<r, c>>])) ELSE ""

\* line 574
IsHeaderCell(cell_value) == cell_value # "" /\ AnyIn(header_keywords, cell_value)

\* lines 578-591: the key a header cell is mapped to ("" for a balance column)
ColumnKey(cell_value) ==
    IF Contains(cell_value, "date") THEN "date_col"
    ELSE IF \/ Contains(cell_value, "description")
            \/ Contains(cell_value, "particular")
            \/ Contains(cell_value, "narration") THEN "description_col"
    ELSE IF Contains(cell_value, "type") THEN "type_col"
    ELSE IF Contains(cell_value, "reference") \/ Contains(cell_value, "ref") THEN "reference_col"
    ELSE IF Contains(cell_value, "debit") THEN "debit_col"
    ELSE IF Contains(cell_value, "credit") THEN "credit_col"
    ELSE IF Contains(cell_value, "amount") THEN "amount_col"
    ELSE ""

\* The header cells of row r among the columns scanned
HeaderCols(ws, r, cols) == { c \in cols : IsHeaderCell(HeaderCellValue(ws, r, c)) }

\* The largest member of a set of numbers
Greatest(S) == CHOOSE m \in S : \A x \in S : x <= m

\* lines 567-596: row_data of a row with three header cells or more: each key
\* found maps to the last column that carries it, header_row to the row
RowData(ws, r, cols) ==
    LET keyed == { c \in HeaderCols(ws, r, cols) : ColumnKey(HeaderCellValue(ws, r, c)) # "" }
        keys == { ColumnKey(HeaderCellValue(ws, r, c)) : c \in keyed }
    IN  [ k \in keys \cup {"header_row"} |->
            IF k = "header_row" THEN r
            ELSE Greatest({ c \in keyed : ColumnKey(HeaderCellValue(ws, r, c)) = k }) ]

\* line 599
DefaultMapping ==
    [ k \in {"header_row", "date_col", "description_col", "debit_col", "credit_col"} |->
        CASE k = "header_row" -> 1
          [] k = "date_col" -> 1
          [] k = "description_col" -> 2
          [] k = "debit_col" -> 4
          [] k = "credit_col" -> 5 ]

LocateHeaders_LastRow(ws, rows, cols) ==
    IF \E r \in rows : Cardinality(HeaderCols(ws, r, cols)) >= 3
    THEN RowData(ws, Greatest({ r \in rows : Cardinality(HeaderCols(ws, r, cols)) >= 3 }), cols)
    ELSE DefaultMapping

\* lines 566-599 over given rows and columns: the first row with three header
\* cells or more decides, the default mapping is returned when there is none
LocateHeaders(ws, rows, cols) ==
    IF \E r \in rows : Cardinality(HeaderCols(ws, r, cols)) >= 3
    THEN RowData(ws, Least({ r \in rows : Cardinality(HeaderCols(ws, r, cols)) >= 3 }), cols)
    ELSE DefaultMapping

\* line 566: range(1, min(20, worksheet.max_row + 1))
ScannedRows(ws) == 1..(Min(20, ws.max_row + 1) - 1)

\* line 570: range(1, min(worksheet.max_column + 1, 10))
ScannedCols(ws) == 1..(Min(ws.max_column + 1, 10) - 1)

\* lines 562-599
find_data_headers(ws) == LocateHeaders(ws, ScannedRows(ws), ScannedCols(ws))

\* ---- the inputs of SpecHeaders

\* The rows the header row is put at, and the rows of data below it.
HeaderRowPlaces == { 1, 2, 10, 19, 20, 21 }
RowsBelow == { 0, 3 }

\* The columns the three header cells are put at.
HeaderColPlaces == { <<1, 2, 3>>, <<2, 4, 6>>, <<7, 8, 9>>, <<1, 2, 10>>, <<8, 9, 10>>,
                     <<9, 10, 11>> }

\* The texts of the three header cells.
HeaderTexts == { <<"Date", "Description", "Amount">>,
                 <<"Transaction Date", " Narration ", "Debit">>,
                 <<"Value Date", "Reference", "Balance">>,
                 <<"Transaction Date", "Value Date", "Amount">> }

\* above: the row over the header row holds two header cells; a sheet with three
\* rows below holds a second header row two rows under the first.
HeaderInputs ==
    { [row |-> r, below |-> b, cols |-> c, texts |-> t, above |-> a] :
        r \in HeaderRowPlaces, b \in RowsBelow, c \in HeaderColPlaces, t \in HeaderTexts,
        a \in BOOLEAN }

AboveCells(parts) ==
    IF parts.above /\ parts.row > 1 THEN { <<parts.row - 1, 1>>, <<parts.row - 1, 2>> } ELSE {}

SecondHeaderTexts == <<"Debit", "Credit", "Balance">>

SecondHeaderCells(parts) ==
    IF parts.below = 3 THEN { <<parts.row + 2, c>> : c \in 1..3 } ELSE {}

\* The sheet with those header cells, a title in its first cell when the header
\* row is lower, a date under the first header when rows follow, the two header
\* cells of the row above and the second header row
SheetOf(parts) ==
    [ max_row |-> parts.row + parts.below,
      max_column |-> parts.cols[3],
      texts |-> [ p \in { <<parts.row, parts.cols[i]>> : i \in 1..3 }
                        \cup (IF parts.row > 1 THEN { <<1, 1>> } ELSE {})
                        \cup (IF parts.below > 0 THEN { <<parts.row + 1, parts.cols[1]>> } ELSE {})
                        \cup AboveCells(parts) \cup SecondHeaderCells(parts)
                  |-> IF p[1] = parts.row
                      THEN parts.texts[CHOOSE i \in 1..3 : parts.cols[i] = p[2]]
                      ELSE IF p \in AboveCells(parts)
                      THEN (IF p[2] = 1 THEN "Type" ELSE "Credit")
                      ELSE IF p \in SecondHeaderCells(parts) THEN SecondHeaderTexts[p[2]]
                      ELSE IF p[1] = 1 THEN "Account Statement" ELSE "05/01/2024" ] ]

InitHeaders ==
    /\ header_parts \in HeaderInputs
    /\ worksheet = SheetOf(header_parts)
    /\ row_data = Idle
    /\ hpc = "ready"
    /\ IdleDate
    /\ IdleRefiner
    /\ IdleClassify
    /\ IdleScan
    /\ IdleMerchant
    /\ IdleBank

\* lines 562-599: the call
FindDataHeaders ==
    /\ hpc = "ready"
    /\ row_data' = find_data_headers(worksheet)
    /\ hpc' = "done"
    /\ UNCHANGED <<worksheet, header_parts>>
    /\ UNCHANGED <<dateVars, refinerVars, classifyVars, scanVars, merchantVars, bankVars>>

NextHeaders == FindDataHeaders

SpecHeaders == InitHeaders /\ [][NextHeaders]_vars

\* ---- properties of the Header Locator

\* C20: the scan covers exactly the rows 1..min(20, max_row) and the columns
\* 1..min(10, max_column): the mapping returned is the one those rows and columns
\* give; a header row at row 20 is found, a header cell in column 10 is counted
\* and mapped.
C20_TwentyRowsTenColumns ==
    hpc = "done" =>
        row_data = LocateHeaders(worksheet, 1..Min(20, worksheet.max_row),
                                 1..Min(10, worksheet.max_column))

\* The rows and columns the loops cover: 1..min(19, max_row) and
\* 1..min(9, max_column).
NineteenRowsNineColumns ==
    hpc = "done" =>
        row_data = LocateHeaders(worksheet, 1..Min(19, worksheet.max_row),
                                 1..Min(9, worksheet.max_column))

\* The scanned rows that hold three header cells or more in the scanned columns.
QualifyingRows(ws) ==
    { r \in ScannedRows(ws) :
        Cardinality({ c \in ScannedCols(ws) : IsHeaderCell(HeaderCellValue(ws, r, c)) }) >= 3 }

\* The keys of a mapping other than header_row.
Roles(mapping) == DOMAIN mapping \ {"header_row"}

\* The roles the scanned cells of row r stand for.
RolesOfRow(ws, r) ==
    { ColumnKey(HeaderCellValue(ws, r, c)) :
        c \in { k \in ScannedCols(ws) : IsHeaderCell(HeaderCellValue(ws, r, k)) } } \ {""}

\* C21: the header row returned is the lowest scanned row with three header hits
\* or more, and the roles of the mapping are those of that row, each at a column
\* of that row whose cell stands for the role; when no scanned row has three hits
\* the mapping is header row 1, date 1, description 2, debit 4, credit 5.
C21_FirstQualifyingRowOrDefault ==
    hpc = "done" =>
        IF QualifyingRows(worksheet) = {}
        THEN row_data = DefaultMapping
        ELSE /\ row_data.header_row = Least(QualifyingRows(worksheet))
             /\ Roles(row_data) = RolesOfRow(worksheet, row_data.header_row)
             /\ \A k \in Roles(row_data) :
                    /\ row_data[k] \in ScannedCols(worksheet)
                    /\ ColumnKey(HeaderCellValue(worksheet, row_data.header_row, row_data[k])) = k

\* A sheet with two qualifying rows and a two-hit row over the first has been
\* mapped, and so has a sheet with no qualifying row.
C21_Witness ==
    /\ hpc = "done"
    /\ Cardinality(QualifyingRows(worksheet)) = 2
    /\ header_parts.above /\ header_parts.row > 2
    /\ row_data.header_row = header_parts.row

C21_DefaultWitness ==
    /\ hpc = "done"
    /\ QualifyingRows(worksheet) = {}
    /\ row_data = DefaultMapping

\* The columns of the returned header row whose cell stands for role k.
ColumnsOfRole(ws, r, k) ==
    { c \in ScannedCols(ws) :
        /\ IsHeaderCell(HeaderCellValue(ws, r, c))
        /\ ColumnKey(HeaderCellValue(ws, r, c)) = k }

\* C22: each role of the returned mapping is at the first column of the header
\* row whose cell stands for the role; a later cell of the same role does not
\* replace it.
C22_FirstColumnOfRole ==
    (hpc = "done" /\ QualifyingRows(worksheet) # {}) =>
        \A k \in Roles(row_data) :
            row_data[k] = Least(ColumnsOfRole(worksheet, row_data.header_row, k))

\* The column recorded for a role is the last column of the header row whose
\* cell stands for the role.
LastColumnOfRole ==
    (hpc = "done" /\ QualifyingRows(worksheet) # {}) =>
        \A k \in Roles(row_data) :
            row_data[k] = Greatest(ColumnsOfRole(worksheet, row_data.header_row, k))

\* ---- the general pass of the Rule Classifier

\* The order the general pass tries the categories in.
GeneralPassOrder ==
    << "Internal Transfer", "Salary & Income", "Finance & Banking", "Technology",
       "Food & Beverage", "Transportation & Logistics", "Healthcare", "Utilities",
       "Entertainment & Media", "Retail & Shopping" >>

\* The description reaches the general pass: it is no Square payment and neither
\* the transfer pre-check nor the salary pre-check returns.
ReachesGeneralPass(description) ==
    /\ SqMatch(Strip(Lower(description))) = None
    /\ ~Contains(Strip(Lower(description)), "mobn")
    /\ ~is_ibft_reference(description)
    /\ ~AnyIn(SalarySignals, Strip(Lower(description)))

\* A keyword of the category is in the lower-cased description.
KeywordHit(category, description) ==
    AnyIn(CategoryKeywords(category), Strip(Lower(description)))

\* The hit is accepted: Finance & Banking and Technology need a confirming word.
Accepted(category, description) ==
    /\ KeywordHit(category, description)
    /\ category = "Finance & Banking" => AnyIn(FinanceTerms, Strip(Lower(description)))
    /\ category = "Technology" => AnyIn(TechnologyTerms, Strip(Lower(description)))

\* C23: in the general pass the categories are tried in the order Internal
\* Transfer, Salary & Income, Finance & Banking, Technology, Food & Beverage,
\* Transportation & Logistics, Healthcare, Utilities, Entertainment & Media,
\* Retail & Shopping; the first one with an accepted keyword hit is returned, a
\* Finance & Banking or Technology hit being accepted only with a confirming word,
\* and a hit that is not accepted leaves the search to the categories after it.
C23_FirstAcceptedCategory ==
    (cpc = "done" /\ ReachesGeneralPass(clf_input)) =>
        \A i \in 1..Len(GeneralPassOrder) :
            ( /\ Accepted(GeneralPassOrder[i], clf_input)
              /\ \A j \in 1..(i - 1) : ~Accepted(GeneralPassOrder[j], clf_input) )
            => clf_result = GeneralPassOrder[i]

\* A description with a Finance & Banking keyword and no confirming word was
\* classified by a category after it.
C23_Witness ==
    /\ cpc = "done"
    /\ ReachesGeneralPass(clf_input)
    /\ KeywordHit("Finance & Banking", clf_input)
    /\ ~Accepted("Finance & Banking", clf_input)
    /\ Accepted("Food & Beverage", clf_input)
    /\ clf_result = "Food & Beverage"

\* ---- validation of a row by its date and description cells

\* The summary markers.
SummaryMarkers == {"TOTAL", "SUMMARY", "BALANCE", "OPENING", "CLOSING", "NET", "FLOW"}

\* The cell holds text with one of them in it, in any case.
HasSummaryMarker(cell) == cell # None /\ AnyIn(SummaryMarkers, Upper(PyStr(cell)))

SkippedByMarkerCheck ==
    LastSkipped /\ last_row.outcome.why \in {"date marker", "description marker"}

\* C24: a row is skipped when its date cell is empty, and when its date cell or
\* its description cell holds one of the markers TOTAL, SUMMARY, BALANCE, OPENING,
\* CLOSING, NET, FLOW in any case; a row with none of them in its date and its
\* description is not skipped by the marker check.
C24_MarkerRowsSkipped ==
    last_row # Idle =>
        /\ LastDateCell = None => LastSkipped
        /\ (HasSummaryMarker(LastDateCell) \/ HasSummaryMarker(LastDescriptionCell))
            => LastSkipped
        /\ (~HasSummaryMarker(LastDateCell) /\ ~HasSummaryMarker(LastDescriptionCell))
            => ~SkippedByMarkerCheck

\* What the checks of lines 712-718 do: the date cell is tested for those seven
\* markers, the description cell for TOTAL, SUMMARY, MONTHLY, NET FLOW, NET DEBIT
\* and NET CREDIT.
DateAndDescriptionHaveOwnMarkers ==
    last_row # Idle =>
        /\ (LastDateCell = None \/ HasSummaryMarker(LastDateCell)) => LastSkipped
        /\ ( /\ LastDateCell # None /\ ~HasSummaryMarker(LastDateCell)
             /\ LastDescriptionCell # None
             /\ AnyIn(DescriptionMarkers, Upper(PyStr(LastDescriptionCell))) )
            => SkippedByMarkerCheck
        /\ SkippedByMarkerCheck
            => \/ HasSummaryMarker(LastDateCell)
               \/ /\ LastDescriptionCell # None
                  /\ AnyIn(DescriptionMarkers, Upper(PyStr(LastDescriptionCell)))

\* ---- the order of the refinement pass

\* ceil(n / b)
CeilDiv(n, b) == (n + b - 1) \div b

\* The calls are those of the batches of n records, one per batch, in index order.
BatchesInOrder(submitted, n) ==
    /\ Len(submitted) = CeilDiv(n, BatchSize)
    /\ \A k \in 1..Len(submitted) :
          /\ submitted[k].start = (k - 1) * BatchSize
          /\ submitted[k].len = Min(BatchSize, n - (k - 1) * BatchSize)

\* The file was read to its end and the envelope returned.
EnvelopeReturned == spc = "scanned" /\ file_result # Idle /\ file_result.ok # None

\* The refiner is called, and the classifier with it, in the one step that ends
\* the scan of the last sheet, and never again.
C25_Step == (refinement' # refinement) => (spc = "scan" /\ spc' = "scanned" /\ refinement = Idle)

C25_StateAsStated ==
    /\ spc # "scanned" => refinement = Idle
    /\ (EnvelopeReturned /\ Len(all_transactions) > 0)
        => /\ refinement.invoked
           /\ BatchesInOrder(refinement.submitted, Len(all_transactions))
    /\ (EnvelopeReturned /\ Len(all_transactions) = 0) => ~refinement.invoked

\* C25 as stated: no call of the external classifier is made before the rows of
\* every sheet are read; the refiner is called at most once per file, over the
\* combined list; each batch of consecutive records is submitted once, in index
\* order, a failed batch or not before it, so that the refiner ends after
\* ceil(n / batch size) calls.
C25_EveryBatchSubmittedOnce == [](C25_StateAsStated) /\ [][C25_Step]_vars

C25_State ==
    /\ spc # "scanned" => refinement = Idle
    /\ (EnvelopeReturned /\ Len(all_transactions) > 0)
        => /\ refinement.invoked
           /\ refinement.api_key
                => BatchesInOrder(refinement.submitted, Len(all_transactions))
           /\ ~refinement.api_key
                => /\ refinement.submitted = <<>>
                   /\ file_result.ok.transactions = all_transactions
    /\ (EnvelopeReturned /\ Len(all_transactions) = 0) => ~refinement.invoked

\* C25: no call of the external classifier is made before the rows of every sheet
\* are read; the refiner is called at most once per file, over the combined list,
\* and not at all for an empty list.  With an API key set each batch is submitted
\* once, in index order, a failed batch or not before it, and the refiner ends
\* after ceil(n / batch size) calls; without an API key it makes no call and
\* returns the list as it is.
C25_BatchesOnceInOrderWithKey == [](C25_State) /\ [][C25_Step]_vars

\* Three records in two batches: the call for the first batch failed, the second
\* batch was submitted after it and its record carries the classifier's label.
C25_Witness ==
    /\ EnvelopeReturned
    /\ refinement.api_key
    /\ Len(refinement.submitted) = 2
    /\ refinement.submitted[1].failed
    /\ ~refinement.submitted[2].failed
    /\ file_result.ok.transactions[Len(all_transactions)].Category = "Education"
    /\ file_result.ok.transactions[1].Category = all_transactions[1].Category

\* ------------------------------------------------------------------------
\* Bank info: detect_bank, lines 657-678 of process_excel_file, and the
\* upload handler of app.py (detect_bank_and_currency, upload_file)
\* ------------------------------------------------------------------------

\* lines 22-35: self.bank_patterns, in its order
bank_patterns ==
    << <<"ADCB", {"abu dhabi commercial bank", "adcb"}>>,
       <<"FAB", {"first abu dhabi bank", "fab"}>>,
       <<"ENBD", {"emirates nbd", "enbd"}>>,
       <<"MASHREQ", {"mashreq bank", "mashreq"}>>,
       <<"CBD", {"commercial bank of dubai", "cbd"}>>,
       <<"HSBC", {"hsbc"}>>,
       <<"RAKBANK", {"rak bank", "rakbank"}>>,
       <<"ADIB", {"abu dhabi islamic bank", "adib"}>>,
       <<"BOA", {"bank of america", "bofa", "boa", "b of a"}>>,
       <<"CHASE", {"chase", "jp morgan chase", "jpmorgan"}>>,
       <<"WELLS", {"wells fargo", "wells"}>>,
       <<"CITI", {"citibank", "citi"}>> >>

\* lines 150-163: the name returned for each code
BankNameOfCode ==
    [ i \in 1..Len(bank_patterns) |->
        << "Abu Dhabi Commercial Bank", "First Abu Dhabi Bank", "Emirates NBD", "Mashreq Bank",
           "Commercial Bank of Dubai", "HSBC Bank Middle East", "RAKBank",
           "Abu Dhabi Islamic Bank", "Bank of America", "Chase Bank", "Wells Fargo",
           "Citibank" >>[i] ]

\* lines 144-164
detect_bank(text) ==
    IF \E i \in 1..Len(bank_patterns) : AnyIn(bank_patterns[i][2], Lower(text))
    THEN BankNameOfCode[Least({ i \in 1..Len(bank_patterns) :
                                  AnyIn(bank_patterns[i][2], Lower(text)) })]
    ELSE "Unknown Bank"

\* lines 672-675: the currency set with the bank
CurrencyOfBank(detected_bank) ==
    IF \/ Contains(detected_bank, "America") \/ Contains(detected_bank, "Chase")
       \/ Contains(detected_bank, "Wells") \/ Contains(detected_bank, "Citi")
    THEN "USD" ELSE "AED"

\* line 658
DefaultBankInfo ==
    [ bank_name |-> "Unknown Bank", account_holder |-> "Account Holder",
      account_number |-> "XXXX-XXXX-XXXX", currency |-> "USD" ]

\* lines 662-676: one row of the 'Account Info' sheet, field in column 1 and value
\* in column 2
ReadInfoRow(info, field, value) ==
    IF Contains(Lower(field), "account holder") /\ value # ""
    THEN [info EXCEPT !.account_holder = value]
    ELSE IF Contains(Lower(field), "account number") /\ value # ""
    THEN [info EXCEPT !.account_number = value]
    ELSE IF Contains(Lower(field), "bank name") /\ value # ""
            /\ detect_bank(value) # "Unknown Bank"
    THEN [info EXCEPT !.bank_name = detect_bank(value),
                      !.currency = CurrencyOfBank(detect_bank(value))]
    ELSE info

\* lines 661-676: the rows from the i-th on
RECURSIVE ReadInfoRows(_, _, _)
ReadInfoRows(info, rows, i) ==
    IF i > Len(rows) THEN info
    ELSE ReadInfoRows(ReadInfoRow(info, rows[i][1], rows[i][2]), rows, i + 1)

\* lines 658-676: bank_info of a workbook; the cells of the other sheets are not
\* looked at
BankInfoOf(wb) ==
    IF ~wb.has_info THEN DefaultBankInfo ELSE ReadInfoRows(DefaultBankInfo, wb.info, 1)

\* app.py lines 63-95: GLOBAL_BANK_CONFIG, in its order
GLOBAL_BANK_CONFIG ==
    << <<"abu dhabi commercial bank", "UAE", "AED", "ADCB">>,
       <<"adcb", "UAE", "AED", "ADCB">>,
       <<"first abu dhabi bank", "UAE", "AED", "FAB">>,
       <<"fab", "UAE", "AED", "FAB">>,
       <<"emirates nbd", "UAE", "AED", "ENBD">>,
       <<"enbd", "UAE", "AED", "ENBD">>,
       <<"mashreq bank", "UAE", "AED", "MASHREQ">>,
       <<"mashreq", "UAE", "AED", "MASHREQ">>,
       <<"commercial bank of dubai", "UAE", "AED", "CBD">>,
       <<"cbd", "UAE", "AED", "CBD">>,
       <<"hsbc uae", "UAE", "AED", "HSBC">>,
       <<"hsbc middle east", "UAE", "AED", "HSBC">>,
       <<"abu dhabi islamic bank", "UAE", "AED", "ADIB">>,
       <<"adib", "UAE", "AED", "ADIB">>,
       <<"bank of america", "USA", "USD", "BOA">>,
       <<"chase bank", "USA", "USD", "CHASE">>,
       <<"wells fargo", "USA", "USD", "WF">>,
       <<"citibank", "USA", "USD", "CITI">>,
       <<"barclays", "UK", "GBP", "BARCLAYS">>,
       <<"lloyds", "UK", "GBP", "LLOYDS">>,
       <<"hsbc uk", "UK", "GBP", "HSBC">>,
       <<"state bank of india", "India", "INR", "SBI">>,
       <<"hdfc bank", "India", "INR", "HDFC">>,
       <<"icici bank", "India", "INR", "ICICI">>,
       <<"deutsche bank", "Germany", "EUR", "DB">>,
       <<"bnp paribas", "France", "EUR", "BNP">>,
       <<"ing bank", "Netherlands", "EUR", "ING">> >>

\* app.py lines 97-115: country, currency and code of the first key found in the
\* text
detect_bank_and_currency(text) ==
    IF \E i \in 1..Len(GLOBAL_BANK_CONFIG) : Contains(Lower(text), GLOBAL_BANK_CONFIG[i][1])
    THEN [ country |-> GLOBAL_BANK_CONFIG[Least({ i \in 1..Len(GLOBAL_BANK_CONFIG) :
                         Contains(Lower(text), GLOBAL_BANK_CONFIG[i][1]) })][2],
           currency |-> GLOBAL_BANK_CONFIG[Least({ i \in 1..Len(GLOBAL_BANK_CONFIG) :
                         Contains(Lower(text), GLOBAL_BANK_CONFIG[i][1]) })][3],
           bank_code |-> GLOBAL_BANK_CONFIG[Least({ i \in 1..Len(GLOBAL_BANK_CONFIG) :
                         Contains(Lower(text), GLOBAL_BANK_CONFIG[i][1]) })][4] ]
    ELSE [ country |-> "Unknown", currency |-> "USD", bank_code |-> "UNKNOWN" ]

\* app.py lines 185-194: bank_info.update(...)
UpdatedBankInfo(info, bank_detection) ==
    [ bank_name |-> info.bank_name, account_holder |-> info.account_holder,
      account_number |-> info.account_number, currency |-> bank_detection.currency,
      country |-> bank_detection.country, bank_code |-> bank_detection.bank_code ]

\* ---- the inputs of SpecBank

\* What the 'Bank Name' row of the sheet holds: a text for each bank detect_bank
\* knows, one it does not know, nothing.
BankNameValues ==
    { "ADCB", "First Abu Dhabi Bank", "Emirates NBD PJSC", "Mashreq", "Commercial Bank of Dubai",
      "HSBC", "RAKBANK", "Abu Dhabi Islamic Bank", "Bank of America", "JPMorgan Chase",
      "Wells Fargo", "Citibank N.A.", "Barclays", "" }

\* The title cell of the first transaction sheet.
SheetTitles == { "Account Statement", "Emirates NBD Statement", "Chase Statement" }

\* The rows of the 'Account Info' sheet: a holder row and a bank row.
InfoSheets ==
    { << <<"Account Holder", "J. Smith">>, <<f, v>> >> : f \in {"Bank Name", "Bank"}, v \in BankNameValues }

\* The workbooks: with that sheet or without it, and the title cell of the first
\* transaction sheet.
Workbooks ==
    { [has_info |-> TRUE, info |-> i, title |-> t] : i \in InfoSheets, t \in SheetTitles }
    \cup { [has_info |-> FALSE, info |-> <<>>, title |-> t] : t \in SheetTitles }

\* The date cells of the row read.
BankDateCells == { "05/01/2024", "2024-03-09" }

InitBank ==
    /\ workbook \in Workbooks
    /\ file_bank_info = Idle
    /\ hint = Idle
    /\ row_date = Idle
    /\ response = Idle
    /\ bpc = "load"
    /\ IdleDate
    /\ IdleRefiner
    /\ IdleClassify
    /\ IdleScan
    /\ IdleMerchant
    /\ IdleHeaders

\* lines 657-678: bank_info is set
ReadBankInfo ==
    /\ bpc = "load"
    /\ file_bank_info' = BankInfoOf(workbook)
    /\ bpc' = "scan"
    /\ UNCHANGED <<workbook, hint, row_date, response>>
    /\ UNCHANGED <<dateVars, refinerVars, classifyVars, scanVars, merchantVars, headerVars>>

\* line 721: a row's date is read with the currency of bank_info
ReadRowDate ==
    /\ bpc = "scan"
    /\ hint' = file_bank_info.currency
    /\ \E d \in BankDateCells :
          row_date' = detect_date_format(StrCell(d), file_bank_info.currency, "2026-11-01").value
    /\ bpc' = "scanned"
    /\ UNCHANGED <<workbook, file_bank_info, response>>
    /\ UNCHANGED <<dateVars, refinerVars, classifyVars, scanVars, merchantVars, headerVars>>

\* app.py lines 185-205: upload_file updates bank_info and answers with it
UploadFile ==
    /\ bpc = "scanned"
    /\ file_bank_info' = UpdatedBankInfo(file_bank_info,
                            detect_bank_and_currency(file_bank_info.bank_name))
    /\ response' = file_bank_info'
    /\ bpc' = "responded"
    /\ UNCHANGED <<workbook, hint, row_date>>
    /\ UNCHANGED <<dateVars, refinerVars, classifyVars, scanVars, merchantVars, headerVars>>

NextBank == ReadBankInfo \/ ReadRowDate \/ UploadFile

SpecBank == InitBank /\ [][NextBank]_vars

\* ---- properties of the bank info

\* The value of the 'Bank Name' row of the sheet.
NamedInSheet == workbook.info[2][2]

SheetNamesBank ==
    /\ workbook.has_info
    /\ Contains(Lower(workbook.info[2][1]), "bank name")
    /\ detect_bank(NamedInSheet) # "Unknown Bank"

\* C26: with an 'Account Info' sheet the institution and the currency are those
\* the sheet gives; without one the institution is what the Bank Identifier finds
\* in the cells of the workbook's sheets, and the currency handed to the Date
\* Resolver is that institution's.
C26_SheetElseInferredFromCells ==
    bpc = "scanned" =>
        /\ SheetNamesBank
            => /\ file_bank_info.bank_name = detect_bank(NamedInSheet)
               /\ hint = CurrencyOfBank(detect_bank(NamedInSheet))
        /\ (~workbook.has_info /\ detect_bank(workbook.title) # "Unknown Bank")
            => /\ file_bank_info.bank_name = detect_bank(workbook.title)
               /\ hint = CurrencyOfBank(detect_bank(workbook.title))

\* What lines 657-678 do: the sheet's bank when it names one, else Unknown Bank and
\* USD, whatever the cells of the other sheets hold.
SheetElseUnknownBank ==
    bpc = "scanned" =>
        IF SheetNamesBank
        THEN /\ file_bank_info.bank_name = detect_bank(NamedInSheet)
             /\ hint = CurrencyOfBank(detect_bank(NamedInSheet))
        ELSE file_bank_info.bank_name = "Unknown Bank" /\ hint = "USD"

\* C30: the currency of the bank_info of the upload response is the currency the
\* Date Resolver was handed while the rows were read, for every bank the Bank
\* Identifier returns and for the unknown bank.
C30_ResponseCurrencyIsScanCurrency ==
    bpc = "responded" => response.currency = hint

\* The banks whose name detect_bank_and_currency does not find among its keys.
NamesNotAmongKeys == { "HSBC Bank Middle East", "RAKBank" }

\* The two currencies agree for every bank but those: for them the rows are read
\* with AED and the response says USD.
ResponseCurrencyButTwoBanks ==
    bpc = "responded" =>
        IF response.bank_name \in NamesNotAmongKeys
        THEN hint = "AED" /\ response.currency = "USD" /\ response.bank_code = "UNKNOWN"
        ELSE response.currency = hint

\* ---- well-formed dates

\* The cell is text in one of the three patterns: N/N/YY, YYYY-N-N, N/N/YYYY, N of
\* one or two digits.
TextualPattern(parts) ==
    /\ parts.layout \in {"slash", "dash"}
    /\ Recognized(parts)

\* out has the shape YYYY-MM-DD with a month in 01..12 and a day in 01..31.
WellFormedDate(out) ==
    /\ Len(out) = 10
    /\ IsDigits(SubSeq(out, 1, 4))
    /\ CharAt(out, 5) = "-"
    /\ CharAt(out, 8) = "-"
    /\ IsDigits(SubSeq(out, 6, 7)) /\ StrToInt(SubSeq(out, 6, 7)) \in 1..12
    /\ IsDigits(SubSeq(out, 9, 10)) /\ StrToInt(SubSeq(out, 9, 10)) \in 1..31

\* C28: for text in one of the three recognized patterns the string returned is a
\* well-formed calendar date, YYYY-MM-DD with the month in 01..12 and the day in
\* 01..31, for every currency.
C28_RecognizedGivesCalendarDate ==
    (dpc = "done" /\ TextualPattern(date_parts)) =>
        /\ date_result.kind = "return"
        /\ WellFormedDate(date_result.value)

\* What is returned has the shape NNNN-NN-NN; its month and day are the components
\* of the text, whatever numbers they are.
RecognizedGivesShapeOnly ==
    (dpc = "done" /\ TextualPattern(date_parts)) =>
        /\ date_result.kind = "return"
        /\ Len(date_result.value) = 10
        /\ IsDigits(SubSeq(date_result.value, 1, 4))
        /\ IsDigits(SubSeq(date_result.value, 6, 7))
        /\ IsDigits(SubSeq(date_result.value, 9, 10))
        /\ { StrToInt(SubSeq(date_result.value, 6, 7)), StrToInt(SubSeq(date_result.value, 9, 10)) }
              = { StrToInt(date_parts.a), StrToInt(date_parts.b) }

\* ---- subcategory mirrors category

\* Every record of the list has its subcategory equal to its category.
Mirrored(txs) == \A k \in 1..Len(txs) : txs[k].Subcategory = txs[k].Category

\* The records of the refiner's list at this state: as handed in, after each batch,
\* and as returned.
RefinerMirrors == rpc # "idle" => Mirrored(transactions)

\* The records the row scan has appended, and the records of the envelope.
ScanMirrors ==
    /\ spc # "idle" => Mirrored(all_transactions)
    /\ EnvelopeReturned => Mirrored(file_result.ok.transactions)

\* C27: in every record, at every point (appended by the row scan, after each
\* refiner batch whether it succeeded, was padded or failed, and in the final
\* output), the subcategory equals the category.
C27_SubcategoryMirrorsCategory == RefinerMirrors /\ ScanMirrors

\* Three batches are behind: one failed, one was answered short and padded, one was
\* answered in full, and labels of the list have changed.
C27_Witness ==
    /\ rpc = "loop"
    /\ transactions # before
    /\ \E j \in 1..Len(outcomes) : ~BatchSucceeds(outcomes[j], BatchSize)
    /\ \E j \in 1..Len(outcomes) :
          /\ outcomes[j].kind = "list"
          /\ Len(outcomes[j].cats) \in 1..(Min(BatchSize, Len(transactions) - (j - 1) * BatchSize) - 1)
    /\ \E j \in 1..Len(outcomes) :
          /\ outcomes[j].kind = "list"
          /\ Len(outcomes[j].cats) = Min(BatchSize, Len(transactions) - (j - 1) * BatchSize)

\* The envelope of a file whose records went through a failed batch and an answered
\* one.
C27_EnvelopeWitness ==
    /\ EnvelopeReturned
    /\ refinement.api_key
    /\ Len(refinement.submitted) = 2
    /\ refinement.submitted[1].failed
    /\ ~refinement.submitted[2].failed
    /\ file_result.ok.transactions # all_transactions

\* ---- the credit cell behind a populated debit cell

\* The debit cell holds text other than a blank or a placeholder.
TextualDebit ==
    /\ LastDebitCell.t = "str"
    /\ Strip(LastDebitCell.s) \notin {"", "-", "None"}

\* What the debit cell alone makes of the last row: text that is no number skips
\* the row, a zero skips it, any other number is the magnitude of the record.
DebitAloneDecided ==
    IF ~IsNumber(LastDebitCell)
    THEN last_row.outcome.kind = "skip" /\ last_row.outcome.why = "amount error"
    ELSE IF NumberIn(LastDebitCell) = 0
    THEN last_row.outcome.kind = "skip" /\ last_row.outcome.why = "zero amount"
    ELSE LastAppended /\ Abs(LastAmount) = Abs(NumberIn(LastDebitCell))

\* C29: in debit/credit mode the credit cell is looked at only when the debit cell
\* is absent, falsy, blank or a placeholder; behind any other debit cell it is
\* ignored, so a row whose debit cell is the text "0.00" and whose credit cell holds
\* a number other than zero resolves to zero and gives no record.
C29_CreditIgnoredBehindDebit ==
    (LastValidated /\ ~AmountMode /\ NonEmpty(LastDebitCell)) => DebitAloneDecided

\* A validated row with the debit cell "0.00" and the credit cell 20: skipped for
\* its zero amount.
C29_Witness ==
    /\ LastValidated /\ ~AmountMode
    /\ TextualDebit
    /\ IsNumber(LastDebitCell) /\ NumberIn(LastDebitCell) = 0
    /\ IsNumber(LastCreditCell) /\ NumberIn(LastCreditCell) # 0
    /\ last_row.outcome.kind = "skip"
    /\ last_row.outcome.why = "zero amount"

\* The credit cell decided the amount of the last row: the debit cell is absent,
\* the number 0, blank or a placeholder.
CreditDecidedOnlyBehindEmptyDebit ==
    (LastAppended /\ ~AmountMode /\ IsNumber(LastCreditCell)
        /\ (~IsNumber(LastDebitCell) \/ Abs(LastAmount) # Abs(NumberIn(LastDebitCell))))
    => /\ ~NonEmpty(LastDebitCell)
       /\ Abs(LastAmount) = Abs(NumberIn(LastCreditCell))

====
